---- MODULE Spec2Model ----
(***************************************************************************)
(* LogShort: short-bias scanner.                                           *)
(*                                                                         *)
(* Part I   - the gate pipeline of core/gates.py (a pure function).        *)
(* Part II  - the three-level timer scheduler of main.py (MainWindow).     *)
(* Part III - the bridge file protocol of core/bridge.py.                  *)
(* Part IV  - the records of the store and the tiers that write them.      *)
(* Part V   - the score, parameter-file and ranking functions.             *)
(*                                                                         *)
(* Number conventions of Part I.  The source computes with floats; the     *)
(* model computes with integers and cross-multiplies every comparison, so  *)
(* that no rounding enters:                                                *)
(*   prices, volumes           integer ticks                               *)
(*   change_24h, btc_*, momentum, dist_to_high and every *_pct parameter   *)
(*                             tenths of a percent                         *)
(*   range_position            percent                                     *)
(*   shadow_body_ratio, volume_mult, tp1_ratio, min_rr      tenths         *)
(*   trade levels of a result  thousandths of a tick                       *)
(*   rr_ratio, score           a pair <<numerator, denominator>>           *)
(* Status strings: "ENTRY" = "ВХОД", "READINESS" = "Готовность",           *)
(* "INTEREST" = "Интерес", "OBSERVATION" = "Наблюдение", "" = none.        *)
(***************************************************************************)
EXTENDS Integers, Sequences, FiniteSets, TLC

VARIABLES
    inp,        \* arguments of one call: of check_all_gates, or of a function
                \* of Part V
    result      \* what the call returned, or NoResult before the call

VARIABLES
    \* MainWindow fields (main.py)
    rows,                       \* self.rows, the store: the symbols it holds
    scan_in_progress,
    price_update_in_progress,
    pump_detect_in_progress,
    cand_update_in_progress,
    full_countdown,             \* self._full_countdown
    price_countdown,            \* self._price_countdown
    pump_countdown,             \* self._pump_countdown
    cand_countdown,             \* self._cand_countdown
    \* worker threads (workers/scanner_worker.py)
    scan_runs,                  \* ScannerWorker threads inside run()
    price_runs,                 \* PriceUpdateWorker threads inside run()
    pump_runs,                  \* PumpDetectorWorker threads inside run()
    cand_runs,                  \* CandidatesUpdateWorker threads inside run()
    price_rows,                 \* PriceUpdateWorker.rows
    cand_rows,                  \* CandidatesUpdateWorker.rows
    queue,                      \* signals posted to the GUI thread, oldest first
    \* bookkeeping for the properties (never read by an action's guard)
    scan_by_tick,               \* the latest Tier 1 run was started by the tick
    scan_failed,                \* the latest Tier 1 run ended in _on_error
    missed,                     \* timeouts the timer lost before the tick just taken
    slow,                       \* ticks that found a run or a signal pending
    external,                   \* scans started from outside the tick
    ticks,                      \* ticks with a non-empty store, up to MaxTicks
    idle1,                      \* ticks counted towards the next Tier 1 firing
    idle3                       \* ticks counted towards the next Tier 3 firing

VARIABLES
    \* the bridge directory and the two processes that use it (core/bridge.py)
    files,          \* path -> number of the file it names, 0 for no file
    inodes,         \* the files ever created: content written so far, mtime
    clock,          \* the wall clock
    w_pc,           \* where BridgeWriter.write stands
    w_payload,      \* the payload the write in progress serializes
    w_top_n,        \* the top_n argument of the write in progress
    w_pending,      \* the part of its text json.dump has not written yet
    published,      \* the payloads of the completed publishes, oldest first
    r_pc,           \* where BridgeReader.read stands
    r_fd,           \* the file its open() returned
    r_buf,          \* the text json.load has read so far
    last_mtime_ns,  \* BridgeReader.last_mtime_ns
    returned,       \* what the latest read() returned
    outcome         \* how the latest read() ended

VARIABLES
    \* the records of the store and the workers that share them
    \* (main.py, workers/scanner_worker.py)
    heap,           \* the CoinRow objects ever created, by object number
    win_rows,       \* MainWindow.rows: symbol -> object number, 0 for absent
    runs,           \* runs started so far, by tier
    p_pc,           \* where PriceUpdateWorker.run stands
    p_rows,         \* its updated_rows = dict(self.rows)
    p_todo,         \* the symbols its loop has not reached yet
    d_pc,           \* where PumpDetectorWorker.run stands
    d_todo,         \* the (symbol, object) pairs its loop has not reached yet
    posted,         \* signals of the workers queued for the GUI thread
    written2,       \* record fields Tier 2 has assigned so far
    written3,       \* record fields Tier 3 has assigned so far
    failed          \* symbols whose fetch or compute failed in the latest run of
                    \* Tier 1 (t1) and of Tier 3 (t3)

gateVars == <<inp, result>>

storeVars ==
    <<heap, win_rows, runs, p_pc, p_rows, p_todo, d_pc, d_todo, posted,
      written2, written3, failed>>

bridgeVars ==
    <<files, inodes, clock, w_pc, w_payload, w_top_n, w_pending, published,
      r_pc, r_fd, r_buf, last_mtime_ns, returned, outcome>>

schedVars ==
    <<rows, scan_in_progress, price_update_in_progress, pump_detect_in_progress,
      cand_update_in_progress, full_countdown, price_countdown, pump_countdown,
      cand_countdown, scan_runs, price_runs, pump_runs, cand_runs,
      price_rows, cand_rows, queue,
      scan_by_tick, scan_failed, missed, slow, external, ticks, idle1, idle3>>

vars == <<inp, result, schedVars, bridgeVars, storeVars>>

NoResult == [status |-> "not_called"]

(***************************************************************************)
(* Part I.  core/params_ml.py: GateParams with its hardcoded defaults.     *)
(***************************************************************************)
GateParams ==
    [ btc_trend_max |-> 5, divergence_min |-> 50, gate0_enabled |-> TRUE,
      shadow_body_ratio |-> 15, exhaustion_candles |-> 3,
      high_tolerance_pct |-> 3, min_exhaustion_signals |-> 2,
      gate1_enabled |-> TRUE,
      range_candles_base |-> 8, range_candles_hot |-> 14,
      range_candles_mid |-> 10, pump_threshold_hot |-> 300,
      pump_threshold_mid |-> 150, breakdown_confirm_pct |-> 1,
      gate2_enabled |-> TRUE,
      volume_mult |-> 13, volume_lookback |-> 12, momentum_threshold |-> 0,
      min_confidence_signals |-> 2, gate3_enabled |-> TRUE,
      min_funding |-> 0,
      sl_above_range_pct |-> 5, tp1_ratio |-> 5, tp3_use_low24h |-> TRUE,
      min_rr |-> 15,
      v_recovery_candles |-> 2,
      version |-> 1 ]

\* GateResult(passed, score=0.0, signals=[], debug={})
GateResult(passed, score, signals, debug) ==
    [passed |-> passed, score |-> score, signals |-> signals, debug |-> debug]

DefaultGateResult == GateResult(FALSE, <<0, 1>>, <<>>, {})

DisabledGateResult == GateResult(TRUE, <<100, 1>>, <<"disabled">>, {})

\* helpers for Python's list idioms
Last(s) == s[Len(s)]

Tail_n(s, n) == SubSeq(s, Len(s) - n + 1, Len(s))     \* s[-n:], n <= len(s)

MaxOf(S) == CHOOSE x \in S : \A y \in S : y <= x

MinOf(S) == CHOOSE x \in S : \A y \in S : x <= y

Abs(x) == IF x < 0 THEN -x ELSE x

SeqIf(c, s) == IF c THEN <<s>> ELSE <<>>

\* sorted(v)[k], k a 0-based index
SortedAt(v, k) ==
    CHOOSE x \in {v[i] : i \in 1..Len(v)} :
        /\ Cardinality({i \in 1..Len(v) : v[i] < x}) <= k
        /\ Cardinality({i \in 1..Len(v) : v[i] <= x}) > k

(***************************************************************************)
(* Gate 0: market context.                                                 *)
(***************************************************************************)
check_gate0(btc_trend_1h, alt_change_24h, btc_change_24h, params) ==
    IF ~params.gate0_enabled THEN DisabledGateResult
    ELSE
      LET btc_ok == btc_trend_1h <= params.btc_trend_max
          divergence == alt_change_24h - btc_change_24h
          div_ok == divergence >= params.divergence_min
          score == (IF btc_ok THEN 50 ELSE 0) + (IF div_ok THEN 50 ELSE 0)
      IN  GateResult(btc_ok \/ div_ok, <<score, 1>>,
                     SeqIf(btc_ok, "BTC_trend") \o SeqIf(div_ok, "divergence"),
                     {"btc_trend_1h", "btc_change_24h", "alt_change_24h",
                      "divergence", "btc_ok", "div_ok"})

(***************************************************************************)
(* Gate 1: setup (exhaustion at the top), 2 of 3 conditions.               *)
(***************************************************************************)
IsExhaustionCandle(c, params) ==
    LET body == Abs(c.close - c.open)
        upper_shadow == c.high - (IF c.close >= c.open THEN c.close ELSE c.open)
    IN  body > 0 /\ upper_shadow * 10 > body * params.shadow_body_ratio

check_gate1(candles_5m, params) ==
    IF ~params.gate1_enabled THEN DisabledGateResult
    ELSE IF Len(candles_5m) < params.exhaustion_candles
    THEN GateResult(FALSE, <<0, 1>>, <<"not_enough_candles">>, {})
    ELSE
      LET recent == Tail_n(candles_5m, params.exhaustion_candles)
          exhaustion_count ==
              Cardinality({i \in 1..Len(recent) :
                              IsExhaustionCandle(recent[i], params)})
          c1 == exhaustion_count >= 2
          highs == {recent[i].high : i \in 1..Len(recent)}
          max_high == MaxOf(highs)
          min_high == MinOf(highs)
          \* high_range_pct < high_tolerance_pct, with high_range_pct = 0
          \* when max_high <= 0
          c2 == IF max_high > 0
                THEN (max_high - min_high) * 1000
                        < params.high_tolerance_pct * max_high
                ELSE 0 < params.high_tolerance_pct
          close_falling == \A i \in 1..(Len(recent) - 1) :
                              recent[i].close >= recent[i + 1].close
          close_dropped == Last(recent).close < recent[1].close
          c3 == close_falling \/ close_dropped
          conditions_met == (IF c1 THEN 1 ELSE 0) + (IF c2 THEN 1 ELSE 0)
                              + (IF c3 THEN 1 ELSE 0)
      IN  GateResult(conditions_met >= params.min_exhaustion_signals,
                     <<conditions_met * 100, 3>>,
                     SeqIf(c1, "exhaustion_shadows") \o SeqIf(c2, "high_flat")
                        \o SeqIf(c3, "close_declining"),
                     {"exhaustion_count", "high_range_pct", "close_falling",
                      "close_dropped", "conditions_met"})

(***************************************************************************)
(* Gate 2: trigger (breakdown + failed retest).                            *)
(* Returns the triple (GateResult, range_low, range_high) as a record.     *)
(***************************************************************************)
RangeWindow(change_24h, params) ==
    IF change_24h > params.pump_threshold_hot THEN params.range_candles_hot
    ELSE IF change_24h > params.pump_threshold_mid THEN params.range_candles_mid
    ELSE params.range_candles_base

RetestFailed_close(last_candle, range_low) == last_candle.close < range_low

\* last close < range_low and last high < range_low * 1.005
RetestFailed(last_candle, range_low) ==
    /\ last_candle.close < range_low
    /\ last_candle.high * 1000 < range_low * 1005

check_gate2(candles_5m, change_24h, params) ==
    IF ~params.gate2_enabled
    THEN [res |-> DisabledGateResult, range_low |-> 0, range_high |-> 0]
    ELSE
      LET n == RangeWindow(change_24h, params)
          len == Len(candles_5m)
      IN  IF len < n + 2
          THEN [res |-> GateResult(FALSE, <<0, 1>>, <<"not_enough_candles">>, {}),
                range_low |-> 0, range_high |-> 0]
          ELSE
            LET range_candles == SubSeq(candles_5m, len - n - 1, len - 2)
                range_high == MaxOf({range_candles[i].high : i \in 1..n})
                range_low == MinOf({range_candles[i].low : i \in 1..n})
                prev_candle == candles_5m[len - 1]
                last_candle == candles_5m[len]
                \* prev close < range_low * (1 - breakdown_confirm_pct / 100)
                breakdown == prev_candle.close * 1000
                                < range_low * (1000 - params.breakdown_confirm_pct)
                retest_failed == RetestFailed(last_candle, range_low)
                score == (IF breakdown THEN 50 ELSE 0)
                            + (IF retest_failed THEN 50 ELSE 0)
            IN  [res |-> GateResult(breakdown /\ retest_failed, <<score, 1>>,
                            SeqIf(breakdown, "breakdown_close")
                               \o SeqIf(retest_failed, "retest_failed"),
                            {"n_candles", "range_high", "range_low",
                             "prev_close", "last_close", "last_high",
                             "breakdown", "retest_failed"}),
                 range_low |-> range_low, range_high |-> range_high]

(***************************************************************************)
(* Gate 3: confidence, 2 of 4 conditions.                                  *)
(***************************************************************************)
ConfidenceReached_one(conditions_met, params) == conditions_met >= 1

\* passed = conditions_met >= params.min_confidence_signals
ConfidenceReached(conditions_met, params) ==
    conditions_met >= params.min_confidence_signals

check_gate3(candles_5m, momentum_10m, funding_rate, dist_to_high, prev_dist_to_high, params) ==
    IF ~params.gate3_enabled THEN DisabledGateResult
    ELSE
      LET momentum_ok == momentum_10m <= params.momentum_threshold
          has_volume == Len(candles_5m) >= params.volume_lookback
          lookback == IF has_volume
                      THEN Tail_n(candles_5m, params.volume_lookback)
                      ELSE <<>>
          volumes == [i \in 1..Len(lookback) |-> lookback[i].volume]
          volume_ok ==
              /\ has_volume
              /\ LET median_vol == SortedAt(volumes, Len(volumes) \div 2)
                     last_vol == Last(volumes)
                 IN  last_vol * 10 >= median_vol * params.volume_mult
          funding_ok == funding_rate > params.min_funding
          dist_increasing == dist_to_high > prev_dist_to_high
          conditions_met == (IF momentum_ok THEN 1 ELSE 0)
                              + (IF volume_ok THEN 1 ELSE 0)
                              + (IF funding_ok THEN 1 ELSE 0)
                              + (IF dist_increasing THEN 1 ELSE 0)
      IN  GateResult(ConfidenceReached(conditions_met, params),
                     <<conditions_met * 100, 4>>,
                     SeqIf(momentum_ok, "momentum") \o SeqIf(volume_ok, "volume")
                        \o SeqIf(funding_ok, "funding")
                        \o SeqIf(dist_increasing, "dist_increasing"),
                     {"momentum_10m", "momentum_ok", "funding_rate",
                      "funding_ok", "dist_to_high", "prev_dist_to_high",
                      "dist_increasing", "conditions_met"})

(***************************************************************************)
(* Anti-pattern: V-recovery.                                               *)
(***************************************************************************)
check_v_recovery_dipped(candles_5m, range_low, params) ==
    /\ Len(candles_5m) >= params.v_recovery_candles + 1
    /\ LET recent == Tail_n(candles_5m, params.v_recovery_candles + 1)
       IN  \E i \in 1..(Len(recent) - 1) : recent[i].close < range_low

check_v_recovery(candles_5m, range_low, params) ==
    IF Len(candles_5m) < params.v_recovery_candles + 1 THEN FALSE
    ELSE
      LET recent == Tail_n(candles_5m, params.v_recovery_candles + 1)
          was_below == \E i \in 1..(Len(recent) - 1) : recent[i].close < range_low
          now_above == Last(recent).close > range_low
      IN  was_below /\ now_above

(***************************************************************************)
(* Trade levels, in thousandths of a tick; rr as <<reward, risk>>.         *)
(***************************************************************************)
calculate_trade_levels_low24h(entry_price, range_low, range_high, low_24h, params) ==
    LET sl_price == range_high * (1000 + params.sl_above_range_pct)
        tp1_price == entry_price * 1000
                        - (entry_price - range_low) * params.tp1_ratio * 100
        risk == sl_price - entry_price * 1000
        reward == entry_price * 1000 - tp1_price
    IN  [sl |-> sl_price, tp1 |-> tp1_price, tp2 |-> range_low * 1000,
         tp3 |-> IF params.tp3_use_low24h THEN low_24h * 1000
                 ELSE range_low * 990,
         rr |-> IF risk > 0 THEN <<reward, risk>> ELSE <<0, 1>>]

calculate_trade_levels(entry_price, range_low, range_high, low_24h, params) ==
    LET sl_price == range_high * (1000 + params.sl_above_range_pct)
        tp1_price == entry_price * 1000
                        - (entry_price - range_low) * params.tp1_ratio * 100
        tp2_price == range_low * 1000
        tp3_price == IF params.tp3_use_low24h /\ low_24h * 1000 < tp2_price
                     THEN low_24h * 1000
                     ELSE range_low * 990
        risk == sl_price - entry_price * 1000
        reward == entry_price * 1000 - tp1_price
        rr_ratio == IF risk > 0 THEN <<reward, risk>> ELSE <<0, 1>>
    IN  [sl |-> sl_price, tp1 |-> tp1_price, tp2 |-> tp2_price,
         tp3 |-> tp3_price, rr |-> rr_ratio]

\* rr < min_rr for rr = <<num, den>>, den > 0, min_rr in tenths
RRBelow(rr, min_rr) == rr[1] * 10 < min_rr * rr[2]

(***************************************************************************)
(* check_all_gates, branch by branch.                                      *)
(***************************************************************************)
EmptyGatesResult(i) ==
    [ gate0 |-> DefaultGateResult, gate1 |-> DefaultGateResult,
      gate2 |-> DefaultGateResult, gate3 |-> DefaultGateResult,
      all_passed |-> FALSE, status |-> "", signal_text |-> "",
      entry_price |-> 0, sl_price |-> 0, tp1_price |-> 0, tp2_price |-> 0,
      tp3_price |-> 0, rr_ratio |-> <<0, 1>>,
      timestamp |-> i.now, symbol |-> i.symbol,
      params_version |-> i.params.version ]

\* status on a Gate 1 failure
Gate1FailStatus(range_position, change_24h) ==
    IF range_position > 70 \/ change_24h > 80 THEN "OBSERVATION" ELSE ""

Gate2FailStatus_swapped(range_position, change_24h) ==
    IF range_position > 80 /\ change_24h > 100 THEN "READINESS" ELSE "OBSERVATION"

\* status on a Gate 2 failure
Gate2FailStatus(range_position, change_24h) ==
    IF range_position > 80 /\ change_24h > 100 THEN "INTEREST" ELSE "OBSERVATION"

RRTooLow_never(rr, params) == FALSE

\* the minimum risk-reward check
RRTooLow(rr, params) == RRBelow(rr, params.min_rr)

AllPassed_plan(i, r, g2) ==
    LET entry_price == i.current_price
        lv == calculate_trade_levels(entry_price, g2.range_low, g2.range_high,
                                     i.low_24h, i.params)
        r1 == [r EXCEPT !.all_passed = TRUE,
                        !.entry_price = entry_price * 1000,
                        !.sl_price = lv.sl, !.tp1_price = lv.tp1,
                        !.tp2_price = lv.tp2, !.tp3_price = lv.tp3,
                        !.rr_ratio = lv.rr]
    IN  IF RRTooLow(lv.rr, i.params)
        THEN [r1 EXCEPT !.status = "READINESS", !.signal_text = "rr_below_min"]
        ELSE [r1 EXCEPT !.status = "ENTRY", !.signal_text = "breakdown_confirmed"]

\* all gates passed: trade levels and the risk-reward check
AllPassed(i, r, g2) ==
    LET entry_price == i.current_price
        lv == calculate_trade_levels(entry_price, g2.range_low, g2.range_high,
                                     i.low_24h, i.params)
        r1 == [r EXCEPT !.all_passed = TRUE]
    IN  IF RRTooLow(lv.rr, i.params)
        THEN [r1 EXCEPT !.status = "READINESS", !.signal_text = "rr_below_min"]
        ELSE [r1 EXCEPT !.entry_price = entry_price * 1000,
                        !.sl_price = lv.sl, !.tp1_price = lv.tp1,
                        !.tp2_price = lv.tp2, !.tp3_price = lv.tp3,
                        !.rr_ratio = lv.rr,
                        !.status = "ENTRY", !.signal_text = "breakdown_confirmed"]

check_all_gates(i) ==
    LET p == i.params
        r0 == [EmptyGatesResult(i) EXCEPT
                 !.gate0 = check_gate0(i.btc_trend_1h, i.change_24h,
                                       i.btc_change_24h, p)]
    IN  IF ~r0.gate0.passed
        THEN [r0 EXCEPT !.status = "", !.signal_text = "context"]
        ELSE
        LET r1 == [r0 EXCEPT !.gate1 = check_gate1(i.candles_5m, p)]
        IN  IF ~r1.gate1.passed
            THEN LET s == Gate1FailStatus(i.range_position, i.change_24h)
                 IN  IF s # ""
                     THEN [r1 EXCEPT !.status = s, !.signal_text = "wait_exhaustion"]
                     ELSE r1
            ELSE
            LET g2 == check_gate2(i.candles_5m, i.change_24h, p)
                r2 == [r1 EXCEPT !.gate2 = g2.res]
            IN  IF ~r2.gate2.passed
                THEN LET s == Gate2FailStatus(i.range_position, i.change_24h)
                     IN  [r2 EXCEPT !.status = s,
                            !.signal_text = IF s = "INTEREST"
                                            THEN "wait_breakdown"
                                            ELSE "no_breakdown"]
                ELSE IF check_v_recovery(i.candles_5m, g2.range_low, p)
                THEN [r2 EXCEPT !.status = "OBSERVATION",
                                !.signal_text = "v_recovery"]
                ELSE
                LET r3 == [r2 EXCEPT !.gate3 =
                             check_gate3(i.candles_5m, i.momentum_10m,
                                         i.funding_rate, i.dist_to_high,
                                         i.prev_dist_to_high, p)]
                IN  IF ~r3.gate3.passed
                    THEN [r3 EXCEPT !.status = "READINESS",
                                    !.signal_text = "wait_confirmation"]
                    ELSE AllPassed(i, r3, g2)

(***************************************************************************)
(* Inputs of the gate pipeline.  A candle history is a run of identical    *)
(* quiet candles followed by three freely chosen ones (the last candle of  *)
(* the range window, the breakdown candle, the retest candle).             *)
(***************************************************************************)
Candle(o, h, l, c, v) ==
    [open |-> o, high |-> h, low |-> l, close |-> c, volume |-> v]

QuietCandle == Candle(1004, 1010, 1000, 1006, 10)

RangeCandles ==
    { Candle(1006, 1010, 1000, 1001, 10),      \* plain body
      Candle(1002, 1010, 1000, 1003, 10) }     \* long upper shadow

BreakCandles ==
    { Candle(1001, 1003, 985, 990, 20),        \* closes below the range low
      Candle(1002, 1010, 999, 1001, 10),       \* stays inside
      Candle(1001, 1002, 998, 999, 10) }       \* below, inside the buffer

RetestCandles ==
    { Candle(990, 996, 985, 988, 30),          \* retest fails, volume spike
      Candle(1000, 1009, 989, 1002, 10),       \* closes back above the low
      Candle(990, 1008, 985, 995, 10),         \* wick far above the low
      Candle(1003, 1009, 1001, 1002, 10) }     \* never left the range

PrefixLens == {0, 7, 13}

Repeat(c, n) == [k \in 1..n |-> c]

Histories ==
    { Repeat(QuietCandle, n) \o <<a, b, c>> :
        n \in PrefixLens, a \in RangeCandles, b \in BreakCandles,
        c \in RetestCandles }

Changes24h == {20, 90, 120, 350}

BtcContexts == {<<0, 0>>, <<10, 0>>, <<10, 400>>}   \* <<btc_trend_1h, btc_change_24h>>

RangePositions == {50, 75, 90}

Momenta == {0, 5}

FundingRates == {0, 1}

DistsToHigh == {5, 20}

PrevDistToHigh == 10

Lows24h == {900, 1005}

\* the last of them lies above the stop of every range of the histories
CurrentPrices == {988, 1008, 1012, 1020}

\* int(time.time()) at the moment of the call
Times == {1700000000, 1700000060}

\* the hardcoded defaults, and a parameter file that asks for no minimum
\* risk-reward
ParamSets == {GateParams, [GateParams EXCEPT !.min_rr = 0]}

GateInputs ==
    [ symbol : {"AUSDT"}, candles_5m : Histories, current_price : CurrentPrices,
      change_24h : Changes24h, range_position : RangePositions,
      dist_to_high : DistsToHigh, funding_rate : FundingRates,
      low_24h : Lows24h, btc : BtcContexts, momentum_10m : Momenta,
      params : ParamSets ]

\* the keyword arguments of one call
CallArgs(g, now) ==
    [ symbol |-> g.symbol, candles_5m |-> g.candles_5m,
      current_price |-> g.current_price, change_24h |-> g.change_24h,
      range_position |-> g.range_position, dist_to_high |-> g.dist_to_high,
      funding_rate |-> g.funding_rate, low_24h |-> g.low_24h,
      btc_trend_1h |-> g.btc[1], btc_change_24h |-> g.btc[2],
      momentum_10m |-> g.momentum_10m, prev_dist_to_high |-> PrevDistToHigh,
      params |-> g.params, now |-> now ]

GatesInit ==
    /\ \E g \in GateInputs : \E t \in Times : inp = CallArgs(g, t)
    /\ result = NoResult

\* one call of check_all_gates
Evaluate ==
    /\ result = NoResult
    /\ result' = check_all_gates(inp)
    /\ UNCHANGED inp
    /\ UNCHANGED <<schedVars, bridgeVars, storeVars>>

(***************************************************************************)
(* Part II.  The three-level timer system of MainWindow (main.py).         *)
(*                                                                         *)
(* The GUI thread runs one handler at a time: the one-second tick          *)
(* (_tick_all_levels), a start of a scan from outside the tick, or the     *)
(* slot of the oldest signal a worker thread has posted.  A worker thread  *)
(* runs between its start() and the step in which it posts its signals.    *)
(* The store is kept as the set of symbols it holds.                       *)
(***************************************************************************)
Symbols == {"AUSDT"}

FullPeriod == 120

PricePeriod == 30

PumpPeriod == 10

CandPeriod == 5

MaxTicks == 25

MaxGap == 2

MaxSlowTicks == 1

MaxExternalScans == 1

\* MainWindow.__init__
SchedInit ==
    /\ rows = {}
    /\ scan_in_progress = FALSE
    /\ price_update_in_progress = FALSE
    /\ pump_detect_in_progress = FALSE
    /\ cand_update_in_progress = FALSE
    /\ full_countdown = FullPeriod
    /\ price_countdown = PricePeriod
    /\ pump_countdown = PumpPeriod
    /\ cand_countdown = CandPeriod
    /\ scan_runs = 0 /\ price_runs = 0 /\ pump_runs = 0 /\ cand_runs = 0
    /\ price_rows = {} /\ cand_rows = {}
    /\ queue = <<>>
    /\ scan_by_tick = FALSE /\ scan_failed = FALSE
    /\ missed = 0 /\ slow = 0 /\ external = 0
    /\ ticks = 0 /\ idle1 = 0 /\ idle3 = 0

Signal(sig, payload) == [sig |-> sig, rows |-> payload]

\* _render_candidates drops OBSERVATION records older than the 30 minute TTL
\* and those outside the top 50; with at most 50 symbols and records younger
\* than the TTL it drops none
render_candidates(store) == store

\* a run is unfinished or a posted signal is not handled yet
Pending == scan_runs + price_runs + pump_runs + cand_runs > 0 \/ queue # <<>>

\* guard of _start_scan
StartScanGuard_none == TRUE

StartScanGuard == ~scan_in_progress

\* the in-progress and store conditions under which the tick counts a level
Level3Counts_always == rows # {}

Level3Counts == ~pump_detect_in_progress /\ rows # {}

Level2Counts_own == ~price_update_in_progress /\ rows # {}

Level2Counts == ~price_update_in_progress /\ ~scan_in_progress /\ rows # {}

Level1Counts == ~scan_in_progress

\* the values Tier 1 gives the Tier 2 and Tier 3 countdowns when it fires
Level1Resets_none(p2, p3) == <<p2, p3>>

Level1Resets(p2, p3) == <<PricePeriod, PumpPeriod>>

\* what one call of the tick handler takes off a countdown, whatever time has
\* passed since the previous call
Elapsed_wallclock(gap) == gap + 1

Elapsed(gap) == 1

\* _tick_all_levels: levels 3, 2, 1 and the candidates update, in this order;
\* gap is the number of timeouts the timer lost before this call
TickHandler(gap) ==
    LET step == Elapsed(gap)
        \* level 3
        due3 == Level3Counts /\ pump_countdown - step <= 0
        start3 == due3 /\ pump_runs = 0       \* _start_pump_detect
        pump_a == IF ~Level3Counts THEN pump_countdown
                  ELSE IF due3 THEN PumpPeriod ELSE pump_countdown - step
        \* level 2
        due2 == Level2Counts /\ price_countdown - step <= 0
        start2 == due2 /\ price_runs = 0      \* _start_price_update
        price_a == IF ~Level2Counts THEN price_countdown
                   ELSE IF due2 THEN PricePeriod ELSE price_countdown - step
        \* level 1
        due1 == Level1Counts /\ full_countdown - step <= 0
        start1 == due1 /\ StartScanGuard      \* _start_scan
        reset == Level1Resets(price_a, pump_a)
        scan_a == scan_in_progress \/ start1
        \* candidates update, reads scan_in_progress as level 1 left it
        counts4 == ~scan_a /\ ~cand_update_in_progress /\ rows # {}
        due4 == counts4 /\ cand_countdown - step <= 0
        start4 == due4 /\ cand_runs = 0       \* _start_cand_update
    IN  /\ Pending => slow < MaxSlowTicks
        /\ slow' = IF Pending THEN slow + 1 ELSE slow
        /\ price_rows' = IF start2 THEN rows ELSE price_rows
        /\ cand_rows' = IF start4 THEN rows ELSE cand_rows
        /\ external' = external
        /\ pump_countdown' = IF due1 THEN reset[2] ELSE pump_a
        /\ price_countdown' = IF due1 THEN reset[1] ELSE price_a
        /\ full_countdown' = IF ~Level1Counts THEN full_countdown
                             ELSE IF due1 THEN FullPeriod ELSE full_countdown - step
        /\ cand_countdown' = IF ~counts4 THEN cand_countdown
                             ELSE IF due4 THEN CandPeriod ELSE cand_countdown - step
        /\ pump_detect_in_progress' = (pump_detect_in_progress \/ start3)
        /\ price_update_in_progress' = (price_update_in_progress \/ start2)
        /\ scan_in_progress' = scan_a
        /\ cand_update_in_progress' = (cand_update_in_progress \/ start4)
        /\ pump_runs' = pump_runs + (IF start3 THEN 1 ELSE 0)
        /\ price_runs' = price_runs + (IF start2 THEN 1 ELSE 0)
        /\ scan_runs' = scan_runs + (IF start1 THEN 1 ELSE 0)
        /\ cand_runs' = cand_runs + (IF start4 THEN 1 ELSE 0)
        /\ scan_by_tick' = (IF start1 THEN TRUE ELSE scan_by_tick)
        /\ scan_failed' = (IF start1 THEN FALSE ELSE scan_failed)
        /\ missed' = gap
        /\ ticks' = IF rows # {} /\ ticks < MaxTicks THEN ticks + 1 ELSE ticks
        /\ idle1' = IF due1 THEN 0
                    ELSE IF ~scan_in_progress THEN idle1 + 1 ELSE idle1
        /\ idle3' = IF due1 \/ start3 THEN 0
                    ELSE IF ~pump_detect_in_progress /\ rows # {}
                         THEN idle3 + 1 ELSE idle3
        /\ UNCHANGED <<rows, queue>>
        /\ UNCHANGED <<gateVars, bridgeVars, storeVars>>

\* the one-second timer fires on time
Tick == TickHandler(0)

\* the process was held up and the timer lost some timeouts before this one;
\* it does not replay them
LateTick == \E gap \in 1..MaxGap : TickHandler(gap)

\* _start_scan called from outside the tick: the refresh button, the
\* auto-recalc countdown (_countdown_tick), the start-up single shot
StartScan ==
    /\ external < MaxExternalScans
    /\ external' = external + 1
    /\ StartScanGuard
    /\ scan_in_progress' = TRUE
    /\ scan_runs' = scan_runs + 1
    /\ scan_by_tick' = FALSE
    /\ scan_failed' = FALSE
    /\ UNCHANGED <<rows, price_update_in_progress, pump_detect_in_progress,
                   cand_update_in_progress, full_countdown, price_countdown,
                   pump_countdown, cand_countdown, price_runs, pump_runs,
                   cand_runs, price_rows, cand_rows, queue, slow,
                   ticks, idle1, idle3>>
    /\ missed' = 0
    /\ UNCHANGED <<gateVars, bridgeVars, storeVars>>

WorkerFrame ==
    /\ missed' = 0
    /\ UNCHANGED <<gateVars, bridgeVars, storeVars>>
    /\ UNCHANGED <<rows, scan_in_progress, price_update_in_progress,
                pump_detect_in_progress, cand_update_in_progress,
                full_countdown, price_countdown, pump_countdown,
                cand_countdown, scan_by_tick, scan_failed, slow,
                external, ticks,
                idle1, idle3>>

\* ScannerWorker.run ends: finished_all(results), or error
ScanEnds ==
    /\ scan_runs > 0
    /\ scan_runs' = scan_runs - 1
    /\ \/ \E results \in SUBSET Symbols :
            queue' = Append(queue, Signal("finished_all", results))
       \/ queue' = Append(queue, Signal("error", {}))
    /\ UNCHANGED <<price_runs, pump_runs, cand_runs, price_rows, cand_rows>>
    /\ WorkerFrame

\* PriceUpdateWorker.run ends: finished(updated_rows), or error followed by
\* finished(self.rows)
PriceEnds ==
    /\ price_runs > 0
    /\ price_runs' = price_runs - 1
    /\ price_rows' = {}
    /\ \/ queue' = Append(queue, Signal("price_finished", price_rows))
       \/ queue' = queue \o <<Signal("price_error", {}),
                              Signal("price_finished", price_rows)>>
    /\ UNCHANGED <<scan_runs, pump_runs, cand_runs, cand_rows>>
    /\ WorkerFrame

\* PumpDetectorWorker.run ends: pump_detected for the symbols that moved,
\* then finished(pumps); or error followed by finished([])
PumpEnds ==
    /\ pump_runs > 0
    /\ pump_runs' = pump_runs - 1
    /\ \/ queue' = Append(queue, Signal("pump_finished", {}))
       \/ \E sym \in Symbols :
            queue' = queue \o <<Signal("pump_detected", {sym}),
                                Signal("pump_finished", {sym})>>
       \/ queue' = queue \o <<Signal("pump_error", {}),
                              Signal("pump_finished", {})>>
    /\ UNCHANGED <<scan_runs, price_runs, cand_runs, price_rows, cand_rows>>
    /\ WorkerFrame

\* CandidatesUpdateWorker.run ends: coin_updated for the refreshed symbols,
\* then finished(updated_rows); or error followed by finished(self.rows)
CandEnds ==
    /\ cand_runs > 0
    /\ cand_runs' = cand_runs - 1
    /\ cand_rows' = {}
    /\ \/ queue' = Append(queue, Signal("cand_finished", cand_rows))
       \/ \E sym \in cand_rows :
             queue' = queue \o <<Signal("coin_updated", {sym}),
                                 Signal("cand_finished", cand_rows)>>
       \/ queue' = queue \o <<Signal("cand_error", {}),
                              Signal("cand_finished", cand_rows)>>
    /\ UNCHANGED <<scan_runs, price_runs, pump_runs, price_rows>>
    /\ WorkerFrame

\* what _on_error does to scan_in_progress
OnErrorFlag_kept == scan_in_progress

OnErrorFlag == FALSE

\* the slot of the oldest posted signal runs in the GUI thread
Deliver ==
    /\ queue # <<>>
    /\ queue' = Tail(queue)
    /\ LET m == Head(queue) IN
       \* _on_finished (the publish it ends with is Part III)
       \/ /\ m.sig = "finished_all"
          /\ rows' = render_candidates(m.rows)
          /\ scan_in_progress' = FALSE
          /\ full_countdown' = FullPeriod
          /\ idle1' = 0
          /\ scan_failed' = FALSE
          /\ UNCHANGED <<price_update_in_progress, pump_detect_in_progress,
                         cand_update_in_progress, cand_countdown>>
       \* _on_error
       \/ /\ m.sig = "error"
          /\ scan_in_progress' = OnErrorFlag
          /\ scan_failed' = TRUE
          /\ UNCHANGED <<rows, price_update_in_progress, pump_detect_in_progress,
                         cand_update_in_progress, full_countdown,
                         cand_countdown, idle1>>
       \* _on_price_update_finished
       \/ /\ m.sig = "price_finished"
          /\ price_update_in_progress' = FALSE
          /\ rows' = IF m.rows # {} THEN render_candidates(m.rows) ELSE rows
          /\ UNCHANGED <<scan_in_progress, pump_detect_in_progress,
                         cand_update_in_progress, full_countdown,
                         cand_countdown, idle1, scan_failed>>
       \* _on_price_update_error
       \/ /\ m.sig = "price_error"
          /\ price_update_in_progress' = FALSE
          /\ UNCHANGED <<rows, scan_in_progress, pump_detect_in_progress,
                         cand_update_in_progress, full_countdown,
                         cand_countdown, idle1, scan_failed>>
       \* _on_pump_detected
       \/ /\ m.sig = "pump_detected"
          /\ rows' = IF m.rows \subseteq rows
                     THEN render_candidates(rows) ELSE rows
          /\ UNCHANGED <<scan_in_progress, price_update_in_progress,
                         pump_detect_in_progress, cand_update_in_progress,
                         full_countdown, cand_countdown, idle1, scan_failed>>
       \* _on_pump_detect_finished, _on_pump_detect_error
       \/ /\ m.sig \in {"pump_finished", "pump_error"}
          /\ pump_detect_in_progress' = FALSE
          /\ UNCHANGED <<rows, scan_in_progress, price_update_in_progress,
                         cand_update_in_progress, full_countdown,
                         cand_countdown, idle1, scan_failed>>
       \* _on_coin_updated
       \/ /\ m.sig = "coin_updated"
          /\ rows' = rows \cup m.rows
          /\ UNCHANGED <<scan_in_progress, price_update_in_progress,
                         pump_detect_in_progress, cand_update_in_progress,
                         full_countdown, cand_countdown, idle1, scan_failed>>
       \* _on_cand_finished
       \/ /\ m.sig = "cand_finished"
          /\ cand_update_in_progress' = FALSE
          /\ rows' = render_candidates(IF m.rows # {} THEN m.rows ELSE rows)
          /\ cand_countdown' = CandPeriod
          /\ UNCHANGED <<scan_in_progress, price_update_in_progress,
                         pump_detect_in_progress, full_countdown, idle1, scan_failed>>
       \* _on_cand_error
       \/ /\ m.sig = "cand_error"
          /\ cand_update_in_progress' = FALSE
          /\ UNCHANGED <<rows, scan_in_progress, price_update_in_progress,
                         pump_detect_in_progress, full_countdown,
                         cand_countdown, idle1, scan_failed>>
    /\ UNCHANGED <<price_countdown, pump_countdown, scan_runs, price_runs,
                   pump_runs, cand_runs, price_rows, cand_rows, scan_by_tick,
                   slow, external, ticks, idle3>>
    /\ missed' = 0
    /\ UNCHANGED <<gateVars, bridgeVars, storeVars>>

(***************************************************************************)
(* Part III.  core/bridge.py: the snapshot file between Scanner and        *)
(* Trainer.                                                                *)
(*                                                                         *)
(* The writer (Scanner, GUI thread) and the reader (Trainer, another       *)
(* process) share a directory.  A path names a numbered file or nothing;   *)
(* an open file stays readable after its path is given to another file.    *)
(* The text of a file is a sequence of tokens; json.dump writes them one   *)
(* after another and json.load reads them one after another.               *)
(***************************************************************************)
BRIDGE_FILENAME == "bridge_snapshot.json"

\* self.bridge_path + ".tmp"
TmpPathOf(bridge_path) == "bridge_snapshot.json.tmp"

Paths == {BRIDGE_FILENAME, TmpPathOf(BRIDGE_FILENAME)}

MaxPublishes == 2

MaxClock == 2

NoPayload == [ts |-> 0]

NoneValue == [none |-> TRUE]

\* a CoinRow, with the fields the ordering of a snapshot reads
CoinRow(symbol, status, score, valid) ==
    [symbol |-> symbol, status |-> status, score |-> score, valid |-> valid]

\* the stores handed to write_bridge_snapshot, in dict iteration order
Stores ==
    { <<>>,
      <<CoinRow("AUSDT", "INTEREST", 40, TRUE)>>,
      <<CoinRow("BUSDT", "INTEREST", 40, TRUE),
        CoinRow("AUSDT", "INTEREST", 40, TRUE)>>,
      <<CoinRow("BUSDT", "OBSERVATION", 35, TRUE),
        CoinRow("AUSDT", "ENTRY", 80, TRUE),
        CoinRow("CUSDT", "", 10, FALSE)>> }

TopNs == {1, 30}

\* status_priority.get(status, 99)
status_priority(status) ==
    CASE status = "ENTRY" -> 0
      [] status = "READINESS" -> 1
      [] status = "INTEREST" -> 2
      [] status = "OBSERVATION" -> 3
      [] status = "" -> 4
      [] OTHER -> 99

\* _row_to_dict
row_to_dict(row) == [symbol |-> row.symbol, status |-> row.status, score |-> row.score]

\* the sort key (status_priority, -score) of a precedes that of b
KeyBefore(a, b) ==
    \/ status_priority(a.status) < status_priority(b.status)
    \/ /\ status_priority(a.status) = status_priority(b.status)
       /\ a.score > b.score

\* list.sort is stable: x goes behind every item whose key is not after its own
RECURSIVE InsertSorted(_, _)
InsertSorted(x, items) ==
    IF items = <<>> THEN <<x>>
    ELSE IF KeyBefore(x, Last(items)) THEN
        Append(InsertSorted(x, SubSeq(items, 1, Len(items) - 1)), Last(items))
    ELSE Append(items, x)

RECURSIVE SortItems(_)
SortItems(items) ==
    IF items = <<>> THEN <<>>
    ELSE InsertSorted(Last(items), SortItems(SubSeq(items, 1, Len(items) - 1)))

RECURSIVE ValidItems(_)
ValidItems(store) ==
    IF store = <<>> THEN <<>>
    ELSE LET rest == ValidItems(SubSeq(store, 1, Len(store) - 1))
         IN  IF Last(store).valid THEN Append(rest, row_to_dict(Last(store)))
             ELSE rest

\* the payload BridgeWriter.write builds
build_payload(store, top_n, strategy_name, time) ==
    LET sorted == SortItems(ValidItems(store))
        items == SubSeq(sorted, 1, IF top_n < Len(sorted) THEN top_n ELSE Len(sorted))
    IN  [ ts |-> time, bridge_version |-> "2.0", strategy |-> strategy_name,
          top_n |-> Len(items), items |-> items ]

NoItem == [symbol |-> "", status |-> "", score |-> 0]

Token(key, num, str, item) == [key |-> key, num |-> num, str |-> str, item |-> item]

\* json.dump(payload): the text of the payload
Serialize(payload) ==
    << Token("{", 0, "", NoItem),
       Token("ts", payload.ts, "", NoItem),
       Token("bridge_version", 0, payload.bridge_version, NoItem),
       Token("strategy", 0, payload.strategy, NoItem),
       Token("top_n", payload.top_n, "", NoItem),
       Token("[", 0, "", NoItem) >>
    \o [i \in 1..Len(payload.items) |-> Token("item", 0, "", payload.items[i])]
    \o << Token("]", 0, "", NoItem), Token("}", 0, "", NoItem) >>

\* a text json.load accepts: one complete object and nothing else
WellFormed(text) ==
    /\ Len(text) >= 8
    /\ text[1].key = "{" /\ text[2].key = "ts"
    /\ text[3].key = "bridge_version" /\ text[4].key = "strategy"
    /\ text[5].key = "top_n" /\ text[6].key = "["
    /\ \A i \in 7..(Len(text) - 2) : text[i].key = "item"
    /\ text[Len(text) - 1].key = "]" /\ text[Len(text)].key = "}"

\* json.load(text) for a well-formed text
Parse(text) ==
    [ ts |-> text[2].num, bridge_version |-> text[3].str,
      strategy |-> text[4].str, top_n |-> text[5].num,
      items |-> [i \in 1..(Len(text) - 8) |-> text[i + 6].item] ]

NewFile(time) == [content |-> <<>>, mtime |-> time]

BridgeInit ==
    /\ files = [p \in Paths |-> 0]
    /\ inodes = <<>>
    /\ clock = 1
    /\ w_pc = "idle" /\ w_payload = NoPayload /\ w_top_n = 0 /\ w_pending = <<>>
    /\ published = <<>>
    /\ r_pc = "idle" /\ r_fd = 0 /\ r_buf = <<>>
    /\ last_mtime_ns = 0
    /\ returned = NoneValue /\ outcome = "not_read"

ReaderFrame == UNCHANGED <<r_pc, r_fd, r_buf, last_mtime_ns, returned, outcome>>

WriterFrame == UNCHANGED <<w_pc, w_payload, w_top_n, w_pending, published>>

OthersFrame == UNCHANGED <<gateVars, schedVars, storeVars>>

\* time passes
Advance ==
    /\ clock < MaxClock
    /\ clock' = clock + 1
    /\ UNCHANGED <<files, inodes>>
    /\ WriterFrame /\ ReaderFrame /\ OthersFrame

\* write_bridge_snapshot(rows, top_n): BridgeWriter.write up to _atomic_write
BeginWrite ==
    /\ w_pc = "idle"
    /\ Len(published) < MaxPublishes
    /\ \E store \in Stores : \E top_n \in TopNs :
          /\ w_payload' = build_payload(store, top_n, "ShortExhaustion", clock)
          /\ w_top_n' = top_n
    /\ w_pc' = "open"
    /\ UNCHANGED <<files, inodes, clock, w_pending, published>>
    /\ ReaderFrame /\ OthersFrame

\* the path _atomic_write writes the text to
WritePath_direct(bridge_path) == bridge_path

WritePath(bridge_path) == TmpPathOf(bridge_path)

\* open(tmp_path, "w"): creates the file, or empties the one the path names
OpenTmp ==
    /\ w_pc = "open"
    /\ LET path == WritePath(BRIDGE_FILENAME) IN
         IF files[path] = 0
         THEN /\ inodes' = Append(inodes, NewFile(clock))
              /\ files' = [files EXCEPT ![path] = Len(inodes) + 1]
         ELSE /\ inodes' = [inodes EXCEPT ![files[path]] = NewFile(clock)]
              /\ UNCHANGED files
    /\ w_pending' = Serialize(w_payload)
    /\ w_pc' = "dump"
    /\ UNCHANGED <<clock, w_payload, w_top_n, published>>
    /\ ReaderFrame /\ OthersFrame

\* json.dump writes the next piece of the text
WriteChunk ==
    /\ w_pc = "dump" /\ w_pending # <<>>
    /\ LET f == files[WritePath(BRIDGE_FILENAME)] IN
         inodes' = [inodes EXCEPT ![f] =
                      [content |-> Append(inodes[f].content, Head(w_pending)),
                       mtime |-> clock]]
    /\ w_pending' = Tail(w_pending)
    /\ UNCHANGED <<files, clock, w_pc, w_payload, w_top_n, published>>
    /\ ReaderFrame /\ OthersFrame

\* json.dump or the close of the file raises: write() logs it and returns
\* False, the text written so far stays under the path
DumpFails ==
    /\ w_pc = "dump"
    /\ w_pc' = "idle" /\ w_payload' = NoPayload /\ w_top_n' = 0 /\ w_pending' = <<>>
    /\ UNCHANGED <<files, inodes, clock, published>>
    /\ ReaderFrame /\ OthersFrame

\* os.replace(tmp_path, self.bridge_path): the canonical path names the
\* written file from here on, the temporary path names nothing
Replace ==
    /\ w_pc = "dump" /\ w_pending = <<>>
    /\ LET path == WritePath(BRIDGE_FILENAME) IN
         files' = IF path = BRIDGE_FILENAME THEN files
                  ELSE [files EXCEPT ![BRIDGE_FILENAME] = files[path],
                                     ![path] = 0]
    /\ published' = Append(published, w_payload)
    /\ w_pc' = "utime"
    /\ UNCHANGED <<inodes, clock, w_payload, w_top_n, w_pending>>
    /\ ReaderFrame /\ OthersFrame

\* os.replace raises (the target is held open where the platform forbids
\* replacing it): write() logs it and returns False, nothing is published
ReplaceFails ==
    /\ w_pc = "dump" /\ w_pending = <<>>
    /\ w_pc' = "idle" /\ w_payload' = NoPayload /\ w_top_n' = 0
    /\ UNCHANGED <<files, inodes, clock, w_pending, published>>
    /\ ReaderFrame /\ OthersFrame

\* os.utime(self.bridge_path, None); write() returns True
Utime ==
    /\ w_pc = "utime"
    /\ LET f == files[BRIDGE_FILENAME] IN
         inodes' = [inodes EXCEPT ![f] = [content |-> inodes[f].content,
                                           mtime |-> clock]]
    /\ w_pc' = "idle" /\ w_payload' = NoPayload /\ w_top_n' = 0
    /\ UNCHANGED <<files, clock, w_pending, published>>
    /\ ReaderFrame /\ OthersFrame

\* BridgeReader.read: os.path.exists
ReadExists ==
    /\ r_pc = "idle"
    /\ IF files[BRIDGE_FILENAME] = 0
       THEN /\ returned' = NoneValue /\ outcome' = "no_file"
            /\ UNCHANGED r_pc
       ELSE /\ r_pc' = "stat"
            /\ UNCHANGED <<returned, outcome>>
    /\ UNCHANGED <<files, inodes, clock, r_fd, r_buf, last_mtime_ns>>
    /\ WriterFrame /\ OthersFrame

\* os.stat and the assignment of last_mtime_ns
ReadStat ==
    /\ r_pc = "stat"
    /\ last_mtime_ns' = inodes[files[BRIDGE_FILENAME]].mtime
    /\ r_pc' = "open"
    /\ UNCHANGED <<files, inodes, clock, r_fd, r_buf, returned, outcome>>
    /\ WriterFrame /\ OthersFrame

\* open(self.bridge_path, "r")
ReadOpen ==
    /\ r_pc = "open"
    /\ r_fd' = files[BRIDGE_FILENAME]
    /\ r_buf' = <<>>
    /\ r_pc' = "load"
    /\ UNCHANGED <<files, inodes, clock, last_mtime_ns, returned, outcome>>
    /\ WriterFrame /\ OthersFrame

\* json.load reads the next piece of the text of the open file
ReadChunk ==
    /\ r_pc = "load"
    /\ Len(r_buf) < Len(inodes[r_fd].content)
    /\ r_buf' = Append(r_buf, inodes[r_fd].content[Len(r_buf) + 1])
    /\ UNCHANGED <<files, inodes, clock, r_pc, r_fd, last_mtime_ns, returned, outcome>>
    /\ WriterFrame /\ OthersFrame

\* json.load reaches the end of the file: read() returns the parsed value, or
\* None when json.load raises
ReadEnd ==
    /\ r_pc = "load"
    /\ Len(r_buf) >= Len(inodes[r_fd].content)
    /\ IF WellFormed(r_buf)
       THEN returned' = Parse(r_buf) /\ outcome' = "parsed"
       ELSE returned' = NoneValue /\ outcome' = "parse_error"
    /\ r_pc' = "idle" /\ r_fd' = 0 /\ r_buf' = <<>>
    /\ UNCHANGED <<files, inodes, clock, last_mtime_ns>>
    /\ WriterFrame /\ OthersFrame

BridgeNext ==
    \/ Advance
    \/ BeginWrite
    \/ OpenTmp
    \/ WriteChunk
    \/ DumpFails
    \/ Replace
    \/ ReplaceFails
    \/ Utime
    \/ ReadExists
    \/ ReadStat
    \/ ReadOpen
    \/ ReadChunk
    \/ ReadEnd

(***************************************************************************)
(* The specifications.                                                     *)
(***************************************************************************)
(***************************************************************************)
(* Part IV.  The records of the store: strategies/short_exhaustion.py,     *)
(* workers/scanner_worker.py and the handlers of main.py that write them.  *)
(*                                                                         *)
(* Number conventions of Part IV:                                          *)
(*   prices                                 integer ticks                  *)
(*   change_24h_pct, dist_high_pct, change_5m, sl_pct, tp*_pct             *)
(*                                          tenths of a percent            *)
(*   range_position, structure_score, candidate_pct, score   percent       *)
(*   trend_*_ppm, btc_div_1h                thousandths of a percent/min   *)
(*   exhaustion, volume_score               thousandths                    *)
(*   entry_price, sl_price, tp1, tp2        thousandths of a tick          *)
(*   rr                                     a pair <<reward, risk>>        *)
(***************************************************************************)
\* ShortExhaustionConfig with its defaults
ShortExhaustionConfig ==
    [ name |-> "ShortExhaustion",
      sl_pct |-> 25, tp1_pct |-> 15, tp2_pct |-> 30,
      gate0_pump_threshold |-> 80, gate0_range_min |-> 70,
      gate1_exhaustion_min |-> 300, gate1_dist_high_max |-> 50,
      gate2_trend_1h_max |-> 0, gate2_structure_min |-> 50,
      gate3_btc_div_max |-> 0, gate3_volume_score_min |-> 300 ]

\* clamp(x, lo, hi)
clamp(x, lo, hi) == MaxOf({lo, MinOf({hi, x})})

\* range_position(price, low, high) of core/math_utils.py
range_position(price, low, high) ==
    IF high <= low THEN 50
    ELSE clamp(((price - low) * 100) \div (high - low), 0, 100)

\* dist_to_high_pct(price, high) of core/math_utils.py
dist_to_high_pct(price, high) ==
    IF price <= 0 THEN 0 ELSE ((high - price) * 1000) \div price

\* A ticker of the exchange beside what the klines of the symbol give: the
\* three trends, the structure score, the volume score and the rating.
ScanInput(price, high, low, change, t1, t3, t24, structure, volume, rating) ==
    [ lastPrice |-> price, highPrice24h |-> high, lowPrice24h |-> low,
      price24hPcnt |-> change, fundingRate |-> 1,
      trend_1h |-> t1, trend_3h |-> t3, trend_24h |-> t24,
      structure_score |-> structure, volume_score |-> volume,
      candidate_pct |-> rating ]

\* the quotients of range_position and dist_to_high_pct come out whole
ExactInput(in) ==
    /\ in.highPrice24h > in.lowPrice24h =>
          ((in.lastPrice - in.lowPrice24h) * 100)
              % (in.highPrice24h - in.lowPrice24h) = 0
    /\ in.lastPrice > 0 =>
          ((in.highPrice24h - in.lastPrice) * 1000) % in.lastPrice = 0

\* CoinRow() with the defaults of the dataclass
DefaultRow ==
    [ symbol |-> "", price_now |-> 0, high_24h |-> 0, low_24h |-> 0,
      change_24h_pct |-> 0, funding_rate |-> 0,
      range_position |-> 0, dist_high_pct |-> 0,
      trend_1h_ppm |-> 0, trend_3h_ppm |-> 0, trend_24h_ppm |-> 0,
      volume_score |-> 0, structure_score |-> 0, exhaustion |-> 0,
      btc_div_1h |-> 0, candidate_pct |-> 0,
      entry_price |-> 0, sl_price |-> 0, tp1 |-> 0, tp2 |-> 0,
      rr |-> <<0, 1>>,
      status |-> "", signal |-> "", score |-> 0,
      gate0_passed |-> FALSE, gate1_passed |-> FALSE,
      gate2_passed |-> FALSE, gate3_passed |-> FALSE,
      valid |-> TRUE, last_update |-> 0, added_at |-> 0,
      change_5m |-> 0, volume_spike |-> 0 ]

\* ScannerWorker._ticker_to_row
ticker_to_row(symbol, ticker) ==
    [DefaultRow EXCEPT
        !.symbol = symbol,
        !.price_now = ticker.lastPrice,
        !.high_24h = ticker.highPrice24h,
        !.low_24h = ticker.lowPrice24h,
        !.change_24h_pct = ticker.price24hPcnt,
        !.funding_rate = ticker.fundingRate,
        !.valid = TRUE]

\* ShortExhaustionStrategy._compute_exhaustion, rounded down
compute_exhaustion(trend_1h, trend_3h, trend_24h) ==
    IF trend_24h <= 0 THEN 0
    ELSE LET slow_1h == MaxOf({0, trend_24h - trend_1h})
             slow_3h == MaxOf({0, trend_24h - trend_3h})
         IN  clamp(((slow_1h + slow_3h) * 1000) \div (2 * MaxOf({1, trend_24h})),
                   0, 1000)

_check_gate0(row, config) ==
    LET is_pump == row.change_24h_pct >= config.gate0_pump_threshold
        is_high == row.range_position >= config.gate0_range_min
    IN  is_pump \/ is_high

_check_gate1(row, config) ==
    LET has_exhaustion == row.exhaustion >= config.gate1_exhaustion_min
        near_high == row.dist_high_pct <= config.gate1_dist_high_max
    IN  has_exhaustion /\ near_high

_check_gate2(row, config) ==
    LET trend_down == row.trend_1h_ppm <= config.gate2_trend_1h_max
        structure_weak == row.structure_score >= config.gate2_structure_min
    IN  trend_down /\ structure_weak

_check_gate3(row, config) ==
    LET weaker_btc == row.btc_div_1h <= config.gate3_btc_div_max
        volume_ok == row.volume_score >= config.gate3_volume_score_min
    IN  weaker_btc /\ volume_ok

\* ShortExhaustionStrategy.compute_trade_plan: (entry, sl, tp1, tp2, rr)
compute_trade_plan(row, config) ==
    LET entry == row.price_now
        sl == entry * (1000 + config.sl_pct)
        tp1 == entry * (1000 - config.tp1_pct)
        tp2 == entry * (1000 - config.tp2_pct)
        risk == sl - entry * 1000
        reward == entry * 1000 - tp1
    IN  IF entry <= 0
        THEN [entry |-> 0, sl |-> 0, tp1 |-> 0, tp2 |-> 0, rr |-> <<0, 1>>]
        ELSE [entry |-> entry * 1000, sl |-> sl, tp1 |-> tp1, tp2 |-> tp2,
              rr |-> IF risk # 0 THEN <<reward, risk>> ELSE <<0, 1>>]

\* ShortExhaustionStrategy.compute_indicators
compute_indicators(row0, klines, config) ==
    LET r1 == [row0 EXCEPT
                 !.range_position =
                     range_position(row0.price_now, row0.low_24h, row0.high_24h),
                 !.dist_high_pct =
                     dist_to_high_pct(row0.price_now, row0.high_24h),
                 !.trend_1h_ppm = klines.trend_1h,
                 !.trend_3h_ppm = klines.trend_3h,
                 !.trend_24h_ppm = klines.trend_24h,
                 !.volume_score = klines.volume_score,
                 !.structure_score = klines.structure_score,
                 !.exhaustion = compute_exhaustion(klines.trend_1h,
                                    klines.trend_3h, klines.trend_24h),
                 !.candidate_pct = klines.candidate_pct]
        r2 == [r1 EXCEPT
                 !.gate0_passed = _check_gate0(r1, config),
                 !.gate1_passed = _check_gate1(r1, config),
                 !.gate2_passed = _check_gate2(r1, config),
                 !.gate3_passed = _check_gate3(r1, config)]
        plan == compute_trade_plan(r2, config)
    IN  [r2 EXCEPT !.entry_price = plan.entry, !.sl_price = plan.sl,
                   !.tp1 = plan.tp1, !.tp2 = plan.tp2, !.rr = plan.rr]

\* sum([gate0_passed, gate1_passed, gate2_passed, gate3_passed])
gates_passed(row) ==
    Cardinality({i \in 0..3 : <<row.gate0_passed, row.gate1_passed,
                                row.gate2_passed, row.gate3_passed>>[i + 1]})

\* ShortExhaustionStrategy.compute_status: (status, signal)
compute_status(row) ==
    LET n == gates_passed(row) IN
    CASE n = 4 -> <<"ENTRY", "all gates passed">>
      [] n = 3 -> IF ~row.gate3_passed THEN <<"READINESS", "waiting for BTC/volume">>
                  ELSE IF ~row.gate2_passed THEN <<"READINESS", "waiting for the fall">>
                  ELSE <<"READINESS", "almost ready">>
      [] n = 2 -> IF row.gate0_passed /\ row.gate1_passed
                  THEN <<"INTEREST", "exhaustion, waiting for breakdown">>
                  ELSE <<"INTEREST", "potential candidate">>
      [] n = 1 -> IF row.gate0_passed THEN <<"OBSERVATION", "pump/high position">>
                  ELSE <<"OBSERVATION", "monitoring">>
      [] OTHER -> <<"OBSERVATION", "does not meet the criteria">>

\* ShortExhaustionStrategy.compute_score
compute_score(row) ==
    LET status_bonus == CASE row.status = "ENTRY" -> 20
                          [] row.status = "READINESS" -> 10
                          [] row.status = "INTEREST" -> 5
                          [] OTHER -> 0
    IN  clamp(row.candidate_pct + gates_passed(row) * 5 + status_bonus, 0, 100)

\* ScannerWorker._process_symbol for a symbol whose ticker and klines arrived
process_symbol(symbol, in, btc_change_24h, time, config) ==
    LET r1 == compute_indicators(ticker_to_row(symbol, in), in, config)
        r2 == IF btc_change_24h # 0
              THEN [r1 EXCEPT !.btc_div_1h = r1.trend_1h_ppm - btc_change_24h \div 60]
              ELSE r1
        st == compute_status(r2)
        r3 == [r2 EXCEPT !.status = st[1], !.signal = st[2]]
    IN  [r3 EXCEPT !.score = compute_score(r3), !.last_update = time]

\* the symbols the scanner is run on, in the order the dicts hold them
SymOrder == <<"AUSDT", "BUSDT">>

StoreSymbols == {SymOrder[i] : i \in 1..Len(SymOrder)}

MaxScans == 1

MaxPriceRuns == 1

MaxPumpRuns == 1

\* What a Tier 1 run receives for one symbol: a coin at its high after a
\* pump with every gate passing; the same klines under a ticker in the middle
\* of a narrow range; the first with too little volume; a quiet coin; a coin
\* in the middle of its range whose klines give no rating at all.
ScanInputs ==
    { in \in { ScanInput(1000, 1000, 900, 100, -10, 0, 20, 60, 500, 60),
               ScanInput(1000, 1040, 940, 40, -10, 0, 20, 60, 500, 60),
               ScanInput(1000, 1000, 900, 100, -10, 0, 20, 60, 100, 50),
               ScanInput(800, 1000, 600, 10, 5, 5, 0, 20, 0, 10),
               ScanInput(1000, 1100, 900, 10, 5, 5, 0, 0, 0, 0) } :
        ExactInput(in) }

\* btc_change_24h of _fetch_btc_data in thousandths of a percent; 0 when the
\* BTC ticker did not arrive
BtcChanges == {0, 600}

\* A ticker of get_tickers as PriceUpdateWorker reads it.
PriceTicker(price, high, low, change) ==
    [lastPrice |-> price, highPrice24h |-> high, lowPrice24h |-> low,
     price24hPcnt |-> change, fundingRate |-> 2]

\* The last of them lie outside what the 24h fields promise: a last price
\* above the 24h high, and a flat range (high = low).
PriceTickers ==
    { PriceTicker(995, 1000, 900, 60),
      PriceTicker(988, 1000, 900, 40),
      PriceTicker(950, 1000, 900, 10),
      PriceTicker(1010, 1000, 900, 70),
      PriceTicker(1000, 1000, 1000, 0) }

\* (change_5m, volume_spike) of the ten 1-minute klines of a symbol
PumpKlines == {<<35, 2>>, <<25, 2>>, <<-15, 1>>, <<5, 1>>}

\* PumpDetectorWorker(pump_threshold=1.0)
pump_threshold == 10

NoRows == [s \in StoreSymbols |-> 0]

\* a signal a worker emitted, queued for its slot in the GUI thread
Posted(sig, symbol, change_5m, vol_spike, payload) ==
    [sig |-> sig, symbol |-> symbol, change_5m |-> change_5m,
     vol_spike |-> vol_spike, payload |-> payload]

StoreInit ==
    /\ heap = <<>>
    /\ win_rows = NoRows
    /\ runs = <<0, 0, 0>>
    /\ p_pc = "idle" /\ p_rows = NoRows /\ p_todo = <<>>
    /\ d_pc = "idle" /\ d_todo = <<>>
    /\ posted = <<>>
    /\ written2 = {} /\ written3 = {}
    /\ failed = [t1 |-> {}, t3 |-> {}]

StoreFrame == UNCHANGED <<gateVars, schedVars, bridgeVars>>

\* the symbols a dict holds, in its order
KeysOf(d) == SelectSeq(SymOrder, LAMBDA s : d[s] # 0)

IndexOf(s, order) == CHOOSE i \in 1..Len(order) : order[i] = s

\* int(x) of Python for x = num / den, den > 0: rounds towards zero
int_trunc(num, den) == IF num >= 0 THEN num \div den ELSE -((-num) \div den)

\* ------------------------------------------------------------- Tier 1
\* ScannerWorker.run builds its results in a dict of its own, from new
\* CoinRow objects; _on_finished makes that dict the store.
\* (_render_candidates drops no record: there are at most 50 and none has
\* been an OBSERVATION candidate for 30 minutes.)
on_finished_upto(max_scans) ==
    /\ runs[1] < max_scans
    /\ \E got \in SUBSET StoreSymbols :
       \E ins \in [got -> ScanInputs] :
       \E btc_change_24h \in BtcChanges :
          LET order == SelectSeq(SymOrder, LAMBDA s : s \in got)
              results == [i \in 1..Len(order) |->
                            process_symbol(order[i], ins[order[i]],
                                btc_change_24h, clock, ShortExhaustionConfig)]
          IN  /\ heap' = heap \o results
              /\ win_rows' = [s \in StoreSymbols |->
                                IF s \in got THEN Len(heap) + IndexOf(s, order)
                                ELSE 0]
              /\ failed' = [failed EXCEPT !.t1 = StoreSymbols \ got]
    /\ runs' = [runs EXCEPT ![1] = @ + 1]
    /\ UNCHANGED <<p_pc, p_rows, p_todo, d_pc, d_todo, posted, written2, written3>>
    /\ StoreFrame

\* the Tier 1 runs of a session
on_finished == on_finished_upto(MaxScans)

\* one Tier 1 run more, completing beside the Tier 2 run
MaxRescans == 1

on_finished_again == on_finished_upto(MaxScans + MaxRescans)

\* ------------------------------------------------------------- Tier 2
\* _start_price_update and PriceUpdateWorker.run up to its loop:
\* updated_rows = dict(self.rows) copies the dict, not the CoinRow objects
\* in it.
start_price_update ==
    /\ win_rows # NoRows
    /\ p_pc = "idle"
    /\ runs[2] < MaxPriceRuns
    /\ p_rows' = win_rows
    /\ p_todo' = KeysOf(win_rows)
    /\ p_pc' = "loop"
    /\ runs' = [runs EXCEPT ![2] = @ + 1]
    /\ UNCHANGED <<heap, win_rows, d_pc, d_todo, posted, written2, written3>>
    /\ UNCHANGED failed
    /\ StoreFrame

quick_status_plain(row) ==
    IF row.range_position > 90 /\ row.change_24h_pct > 50 THEN "READINESS"
    ELSE IF row.range_position > 85 /\ row.change_24h_pct > 30 THEN "INTEREST"
    ELSE IF row.range_position > 80 /\ row.change_24h_pct > 20 THEN "OBSERVATION"
    ELSE row.status

\* the status after the quick recomputation of PriceUpdateWorker.run
quick_status(row) ==
    IF row.range_position > 90 /\ row.change_24h_pct > 50
    THEN IF row.status \notin {"ENTRY"} THEN "READINESS" ELSE row.status
    ELSE IF row.range_position > 85 /\ row.change_24h_pct > 30
    THEN IF row.status \notin {"READINESS", "ENTRY"} THEN "INTEREST"
         ELSE row.status
    ELSE IF row.range_position > 80 /\ row.change_24h_pct > 20
    THEN IF row.status \notin {"INTEREST", "READINESS", "ENTRY"}
         THEN "OBSERVATION" ELSE row.status
    ELSE row.status

\* one pass of the loop of PriceUpdateWorker.run over a row with a ticker
price_update(row, ticker, time) ==
    LET r1 == [row EXCEPT
                 !.price_now = ticker.lastPrice,
                 !.high_24h = ticker.highPrice24h,
                 !.low_24h = ticker.lowPrice24h,
                 !.change_24h_pct = ticker.price24hPcnt,
                 !.funding_rate = ticker.fundingRate]
        r2 == IF r1.high_24h > r1.low_24h
              THEN [r1 EXCEPT !.range_position =
                       ((r1.price_now - r1.low_24h) * 100)
                           \div (r1.high_24h - r1.low_24h)]
              ELSE r1
        r3 == IF r2.high_24h > 0
              THEN [r2 EXCEPT !.dist_high_pct =
                       ((r2.high_24h - r2.price_now) * 1000) \div r2.high_24h]
              ELSE r2
        r4 == [r3 EXCEPT !.status = quick_status(r3)]
        r5 == IF row.status # r4.status /\ r4.added_at = 0
              THEN [r4 EXCEPT !.added_at = time] ELSE r4
    IN  [r5 EXCEPT !.last_update = time]

\* the fields that pass assigns
price_fields(row, ticker) ==
    {"price_now", "high_24h", "low_24h", "change_24h_pct", "funding_rate",
     "last_update"}
    \cup (IF ticker.highPrice24h > ticker.lowPrice24h
          THEN {"range_position"} ELSE {})
    \cup (IF ticker.highPrice24h > 0 THEN {"dist_high_pct"} ELSE {})
    \cup (IF price_update(row, ticker, 1).status # row.status
          THEN {"status"} ELSE {})
    \cup (IF price_update(row, ticker, 1).status # row.status /\ row.added_at = 0
          THEN {"added_at"} ELSE {})

\* the loop of PriceUpdateWorker.run reaches the next symbol: with a ticker
\* for it, it assigns the fields of the row object, the one the store holds
PriceStep ==
    /\ p_pc = "loop" /\ p_todo # <<>>
    /\ LET obj == p_rows[Head(p_todo)] IN
         \/ /\ \E ticker \in PriceTickers :
                 /\ heap' = [heap EXCEPT ![obj] =
                                price_update(heap[obj], ticker, clock)]
                 /\ written2' = written2 \cup price_fields(heap[obj], ticker)
         \/ UNCHANGED <<heap, written2>>
    /\ p_todo' = Tail(p_todo)
    /\ UNCHANGED <<win_rows, runs, p_pc, p_rows, d_pc, d_todo, posted, written3>>
    /\ UNCHANGED failed
    /\ StoreFrame

\* the loop is over: finished.emit(updated_rows)
PriceFinish ==
    /\ p_pc = "loop" /\ p_todo = <<>>
    /\ posted' = Append(posted, Posted("price_finished", "", 0, 0, p_rows))
    /\ p_pc' = "posted"
    /\ UNCHANGED <<heap, win_rows, runs, p_rows, p_todo, d_pc, d_todo,
                   written2, written3>>
    /\ UNCHANGED failed
    /\ StoreFrame

\* an exception ends the run: error.emit, then finished.emit(self.rows),
\* the dict the worker was started with
PriceFails ==
    /\ p_pc = "loop"
    /\ posted' = Append(posted, Posted("price_finished", "", 0, 0, p_rows))
    /\ p_pc' = "posted" /\ p_todo' = <<>>
    /\ UNCHANGED <<heap, win_rows, runs, p_rows, d_pc, d_todo, written2, written3>>
    /\ UNCHANGED failed
    /\ StoreFrame

\* _on_price_update_finished (after _on_price_update_error, which only
\* clears the flag, when the run failed)
_on_price_update_finished ==
    /\ posted # <<>> /\ Head(posted).sig = "price_finished"
    /\ p_pc' = "idle"
    /\ win_rows' = IF Head(posted).payload # NoRows THEN Head(posted).payload
                   ELSE win_rows
    /\ posted' = Tail(posted)
    /\ UNCHANGED <<heap, runs, p_rows, p_todo, d_pc, d_todo, written2, written3>>
    /\ UNCHANGED failed
    /\ StoreFrame

\* ------------------------------------------------------------- Tier 3
\* _start_pump_detect and PumpDetectorWorker.run up to its loop: sorted_rows
\* lists the (symbol, row) pairs of the store (equal turnovers: the sort
\* keeps the order of the dict)
start_pump_detect ==
    /\ win_rows # NoRows
    /\ d_pc = "idle"
    /\ runs[3] < MaxPumpRuns
    /\ d_todo' = [i \in 1..Len(KeysOf(win_rows)) |->
                    <<KeysOf(win_rows)[i], win_rows[KeysOf(win_rows)[i]]>>]
    /\ d_pc' = "loop"
    /\ runs' = [runs EXCEPT ![3] = @ + 1]
    /\ failed' = [failed EXCEPT !.t3 = {}]
    /\ UNCHANGED <<heap, win_rows, p_pc, p_rows, p_todo, posted, written2, written3>>
    /\ StoreFrame

\* get_klines or the arithmetic on the klines of the symbol raises inside the
\* per-symbol try (except Exception: pass): the loop turns to the next symbol
SymbolSkipped_abort(symbol) ==
    /\ failed' = [failed EXCEPT !.t3 = @ \cup {symbol}]
    /\ posted' = Append(posted, Posted("pump_finished", "", 0, 0, NoRows))
    /\ d_pc' = "posted" /\ d_todo' = <<>>
    /\ UNCHANGED <<heap, written3>>

SymbolSkipped(symbol) ==
    /\ failed' = [failed EXCEPT !.t3 = @ \cup {symbol}]
    /\ d_todo' = Tail(d_todo)
    /\ UNCHANGED <<heap, posted, written3, d_pc>>

\* the loop of PumpDetectorWorker.run reaches the next symbol: with five
\* klines or more it assigns change_5m and volume_spike of the row object
\* and emits pump_detected for a move of pump_threshold or more; with fewer
\* it leaves the row alone
PumpStep ==
    /\ d_pc = "loop" /\ d_todo # <<>>
    /\ LET symbol == Head(d_todo)[1]
           obj == Head(d_todo)[2]
       IN  \/ /\ \E k \in PumpKlines :
                   /\ heap' = [heap EXCEPT ![obj].change_5m = k[1],
                                           ![obj].volume_spike = k[2]]
                   /\ posted' = IF Abs(k[1]) >= pump_threshold
                                THEN Append(posted,
                                       Posted("pump_detected", symbol, k[1], k[2], NoRows))
                                ELSE posted
              /\ written3' = written3 \cup {"change_5m", "volume_spike"}
              /\ d_todo' = Tail(d_todo)
              /\ UNCHANGED <<d_pc, failed>>
           \/ /\ d_todo' = Tail(d_todo)
              /\ UNCHANGED <<heap, posted, written3, d_pc, failed>>
           \/ SymbolSkipped(symbol)
    /\ UNCHANGED <<win_rows, runs, p_pc, p_rows, p_todo, written2>>
    /\ StoreFrame

\* the loop is over: finished.emit(pumps)
PumpFinish ==
    /\ d_pc = "loop" /\ d_todo = <<>>
    /\ posted' = Append(posted, Posted("pump_finished", "", 0, 0, NoRows))
    /\ d_pc' = "posted"
    /\ UNCHANGED <<heap, win_rows, runs, p_pc, p_rows, p_todo, d_todo,
                   written2, written3>>
    /\ UNCHANGED failed
    /\ StoreFrame

\* an exception outside the per-symbol try ends the run: error.emit, then
\* finished.emit([])
PumpFails ==
    /\ d_pc = "loop"
    /\ posted' = Append(posted, Posted("pump_finished", "", 0, 0, NoRows))
    /\ d_pc' = "posted" /\ d_todo' = <<>>
    /\ UNCHANGED <<heap, win_rows, runs, p_pc, p_rows, p_todo, written2, written3>>
    /\ UNCHANGED failed
    /\ StoreFrame

\* the status _on_pump_detected leaves
pump_status(status, change_5m) ==
    IF change_5m >= 30 THEN "READINESS"
    ELSE IF change_5m >= 20 /\ status \notin {"READINESS", "ENTRY"} THEN "INTEREST"
    ELSE status

\* the fields _on_pump_detected assigns
pump_fields(row, change_5m) ==
    {"change_5m", "volume_spike", "score"}
    \cup (IF change_5m >= 30
             \/ (change_5m >= 20 /\ row.status \notin {"READINESS", "ENTRY"})
          THEN {"status", "signal"} ELSE {})
    \cup (IF row.added_at = 0 THEN {"added_at"} ELSE {})

\* _on_pump_detected(symbol, change_5m, vol_spike)
_on_pump_detected ==
    /\ posted # <<>> /\ Head(posted).sig = "pump_detected"
    /\ LET symbol == Head(posted).symbol
           change_5m == Head(posted).change_5m
           obj == win_rows[symbol]
           row == heap[obj]
       IN  IF obj # 0
           THEN /\ heap' = [heap EXCEPT ![obj] =
                     [row EXCEPT
                        !.status = pump_status(row.status, change_5m),
                        !.signal = IF change_5m >= 30 THEN "PUMP"
                                   ELSE IF change_5m >= 20
                                           /\ row.status \notin {"READINESS", "ENTRY"}
                                   THEN "pump"
                                   ELSE row.signal,
                        !.change_5m = change_5m,
                        !.volume_spike = Head(posted).vol_spike,
                        !.score = MinOf({100, row.score + int_trunc(change_5m * 5, 10)}),
                        !.added_at = IF row.added_at = 0 THEN clock
                                     ELSE row.added_at]]
                /\ written3' = written3 \cup pump_fields(row, change_5m)
           ELSE UNCHANGED <<heap, written3>>
    /\ posted' = Tail(posted)
    /\ UNCHANGED <<win_rows, runs, p_pc, p_rows, p_todo, d_pc, d_todo, written2>>
    /\ UNCHANGED failed
    /\ StoreFrame

\* _on_pump_detect_finished
_on_pump_detect_finished ==
    /\ posted # <<>> /\ Head(posted).sig = "pump_finished"
    /\ d_pc' = "idle"
    /\ posted' = Tail(posted)
    /\ UNCHANGED <<heap, win_rows, runs, p_pc, p_rows, p_todo, d_todo,
                   written2, written3>>
    /\ UNCHANGED failed
    /\ StoreFrame

StoreNext ==
    \/ on_finished
    \/ start_price_update
    \/ PriceStep
    \/ PriceFinish
    \/ PriceFails
    \/ _on_price_update_finished
    \/ start_pump_detect
    \/ PumpStep
    \/ PumpFinish
    \/ PumpFails
    \/ _on_pump_detected
    \/ _on_pump_detect_finished

\* Tier 1 and Tier 2 alone, with a Tier 1 run that can complete while a
\* Tier 2 run is under way
RescanNext ==
    \/ on_finished_again
    \/ start_price_update
    \/ PriceStep
    \/ PriceFinish
    \/ PriceFails
    \/ _on_price_update_finished

(***************************************************************************)
(* Part V.  Pure functions beside the gate pipeline: the composite score   *)
(* of core/engine_v2.py and strategies/short_after_pump_v2.py, the         *)
(* parameter files of core/params_ml.py, the base ranking of               *)
(* core/engine.py and the candidate maintenance of main.py.  A call is a   *)
(* record of its arguments, tagged with the function called; scores are    *)
(* in 1/ScoreUnit of a point, exhaustion, trend and divergence in          *)
(* hundredths, distances and z-scores in tenths.                           *)
(***************************************************************************)
ScoreUnit == 140

\* the return of the branch a failed relative-weakness filter takes
RWBlocked_uncapped(score) == score

RWBlocked(score) == MinOf({29 * ScoreUnit, score})

\* calculate_score_v2(metrics).  rw_bonuses is the sum of the funding,
\* volume-spike and z-score bonuses, whose amounts are named in
\* core/config_v2, a module src/ does not hold.
calculate_score_v2(metrics) ==
    LET RW_BLOCK_THRESHOLD == 0
        RW_GOOD_THRESHOLD == -100
        RW_EXCELLENT_THRESHOLD == -200
        exhaustion_score == MinOf({20 * ScoreUnit, metrics.exhaustion * 40})
        near_high_score ==
            MaxOf({0, 15 * ScoreUnit - metrics.dist_to_high_pct * 21})
        trend_score == IF metrics.trend_1h < 0
                       THEN MinOf({10 * ScoreUnit, Abs(metrics.trend_1h) * 14})
                       ELSE 0
        score == exhaustion_score + near_high_score + trend_score
        rw_score == IF metrics.btc_div_1h <= RW_EXCELLENT_THRESHOLD THEN 30
                    ELSE IF metrics.btc_div_1h <= RW_GOOD_THRESHOLD THEN 25
                    ELSE 15
    IN  IF metrics.btc_div_1h <= RW_BLOCK_THRESHOLD
        THEN MinOf({100 * ScoreUnit,
                    MaxOf({0, score + (rw_score + metrics.rw_bonuses) * ScoreUnit})})
        ELSE RWBlocked(score)

\* ShortAfterPumpV2._calculate_total_score
_calculate_total_score(exhaustion_score, rw_score, rw_passed, funding_score, near_high_pct, z_score) ==
    IF ~rw_passed THEN RWBlocked((exhaustion_score * ScoreUnit) \div 2)
    ELSE LET near == IF near_high_pct < 20 THEN 10
                     ELSE IF near_high_pct < 50 THEN 5 ELSE 0
             z == IF z_score >= 25 THEN 5 ELSE IF z_score >= 20 THEN 3 ELSE 0
         IN  MinOf({100 * ScoreUnit,
                    MaxOf({0, (exhaustion_score + rw_score + funding_score
                                 + near + z) * ScoreUnit})})

\* the calls of the two score functions: metrics of calculate_score_v2, and
\* what analyze() hands to _calculate_total_score, (rw_score, rw_passed)
\* being a return of _check_relative_weakness
ScoreCalls ==
    { [fn |-> "calculate_score_v2", exhaustion |-> e, dist_to_high_pct |-> d,
       trend_1h |-> t, btc_div_1h |-> b, rw_bonuses |-> x] :
        e \in {0, 35, 70, 100}, d \in {-10, 0, 20, 100, 150},
        t \in {-200, -50, 0, 100}, b \in {-250, -150, -50, 0, 50, 300},
        x \in {0, 5, 40} }
    \cup
    { [fn |-> "_calculate_total_score", exhaustion_score |-> e,
       rw_score |-> rw[1], rw_passed |-> rw[2], funding_score |-> f,
       near_high_pct |-> n, z_score |-> z] :
        e \in {0, 20, 40},
        rw \in {<<0, FALSE>>, <<15, TRUE>>, <<30, TRUE>>, <<35, TRUE>>},
        f \in {0, 25}, n \in {10, 30, 80}, z \in {0, 20, 25} }

\* ---------------------------------------------------- core/params_ml.py
\* what a function hands back: a value, or an exception
Returned(value) == [raised |-> FALSE, value |-> value]

Raised == [raised |-> TRUE, value |-> <<>>]

\* a parameter file: absent, corrupt (json.load raises on its text) or the
\* text of a saved parameter set
ParamFile(state, params) == [state |-> state, params |-> params]

\* GateParams.load(path) of a file that exists
load(file) ==
    IF file.state = "corrupt" THEN Raised ELSE Returned(file.params)

\* get_params(symbol, params_dir): dir maps the names "symbol" (the file
\* {symbol}.json) and "DEFAULT" to the files; cache is _params_cache as the
\* set of the symbols it holds, cached the value it holds for them
get_params(symbol, dir, cache, cached) ==
    LET symbol_file == IF symbol = "DEFAULT" THEN dir["DEFAULT"] ELSE dir["symbol"]
    IN  IF symbol \in cache THEN Returned(cached)
        ELSE IF symbol_file.state # "absent" THEN load(symbol_file)
        ELSE IF dir["DEFAULT"].state # "absent"
        THEN LET got == load(dir["DEFAULT"])
             IN  IF got.raised THEN got
                 ELSE Returned([got.value EXCEPT !.symbol = symbol])
        ELSE Returned([symbol |-> symbol, params |-> GateParams])

\* a parameter set an optimizer saved: the defaults with another min_rr
SavedParams(symbol) ==
    [symbol |-> symbol, params |-> [GateParams EXCEPT !.min_rr = 20]]

ParamCalls ==
    { [fn |-> "get_params", symbol |-> s,
       dir |-> [symbol |-> ParamFile(fs, SavedParams(s)),
                DEFAULT |-> ParamFile(fd, SavedParams("DEFAULT"))],
       cache |-> IF c THEN {s} ELSE {}, cached |-> SavedParams(s)] :
        s \in {"AUSDT", "BUSDT", "DEFAULT"},
        fs \in {"absent", "corrupt", "saved"},
        fd \in {"absent", "corrupt", "saved"},
        c \in BOOLEAN }

\* --------------------------------------------------------- core/engine.py
\* tuple x sorts before tuple y
TupleLess(x, y) ==
    \E i \in 1..Len(x) : x[i] < y[i] /\ \A j \in 1..(i - 1) : x[j] = y[j]

\* the sort key of sort_symbols_base; rows_by_symbol maps a symbol to its
\* base_rank_tuple, or to <<>> when it holds no row for it
key(rows_by_symbol, sym) ==
    IF rows_by_symbol[sym] = <<>> THEN <<1, 0, 0, 0, 0>>
    ELSE <<0>> \o rows_by_symbol[sym]

\* sorted(list(symbols), key=key, reverse=True): descending, and symbols with
\* equal keys stay in the order they came in
RECURSIVE sort_symbols_base(_, _)
sort_symbols_base(rows_by_symbol, symbols) ==
    IF symbols = <<>> THEN <<>>
    ELSE LET x == Last(symbols)
             rest == sort_symbols_base(rows_by_symbol,
                                       SubSeq(symbols, 1, Len(symbols) - 1))
             n == Cardinality({i \in 1..Len(rest) :
                      ~TupleLess(key(rows_by_symbol, rest[i]),
                                 key(rows_by_symbol, x))})
         IN  SubSeq(rest, 1, n) \o <<x>> \o SubSeq(rest, n + 1, Len(rest))

\* base_rank_tuple of the rows: (short_prob, candidate_pct, short_conf, vol24h_m)
RankTuples == {<<>>, <<50, 40, 30, 10>>, <<50, 60, 30, 10>>, <<70, 40, 30, 5>>}

SortCalls ==
    { [fn |-> "sort_symbols_base", rows_by_symbol |-> r, symbols |-> s] :
        r \in [{"AUSDT", "BUSDT", "CUSDT"} -> RankTuples],
        s \in { <<"AUSDT", "BUSDT", "CUSDT">>, <<"CUSDT", "AUSDT", "BUSDT">>,
                <<"BUSDT", "AUSDT">> } }

\* ----------------------------------------------- main.py, the candidates
\* The top set _render_candidates keeps: 50 records in the source, fewer
\* here, for stores of three records.
CandLimit == 2

\* the record has been an OBSERVATION candidate for more than 30 minutes
Expired(row, now) ==
    row.status = "OBSERVATION" /\ row.added_at > 0 /\ now - row.added_at > 30 * 60

\* the test on a record of candidates[50:] that drops it from the store
Weak_any(row) == TRUE

Weak(row) == row.status = "OBSERVATION"

\* MainWindow._render_candidates: the store it leaves.  self_rows lists the
\* records of self.rows in the order of the dict.
_render_candidates(self_rows, now) ==
    LET kept == SelectSeq(self_rows, LAMBDA r : ~Expired(r, now))
        candidates ==
            SortItems(SelectSeq(kept, LAMBDA r :
                /\ r.status \in {"INTEREST", "READINESS", "ENTRY", "OBSERVATION"}
                /\ r.score > 20))
        weak == IF Len(candidates) > CandLimit
                THEN {candidates[i].symbol :
                        i \in {j \in (CandLimit + 1)..Len(candidates) :
                                  Weak(candidates[j])}}
                ELSE {}
    IN  SelectSeq(kept, LAMBDA r : r.symbol \notin weak)

\* a record of the store as _render_candidates reads it
CandRow(symbol, status, score, added_at) ==
    [symbol |-> symbol, status |-> status, score |-> score, added_at |-> added_at]

\* the calls of _render_candidates at time 10000: every symbol absent or
\* held with one of four statuses, a score below or above the candidate
\* line, and a first flagging never, 31 minutes ago or exactly 30 minutes ago
RenderCalls ==
    LET Held(symbol) ==
            {<<>>} \cup
            { <<CandRow(symbol, st, sc, at)>> :
                st \in {"", "OBSERVATION", "INTEREST", "ENTRY"},
                sc \in {10, 25, 60}, at \in {0, 8140, 8200} }
    IN  { [fn |-> "_render_candidates", rows |-> a \o b \o c, now |-> 10000] :
            a \in Held("AUSDT"), b \in Held("BUSDT"), c \in Held("CUSDT") }

\* ------------------------------------------------------------ the calls
PureInit ==
    /\ inp \in ScoreCalls \cup ParamCalls \cup SortCalls \cup RenderCalls
    /\ result = NoResult

\* one call of the function inp names
Call ==
    /\ result = NoResult
    /\ result' =
         CASE inp.fn = "calculate_score_v2" -> Returned(calculate_score_v2(inp))
           [] inp.fn = "_calculate_total_score" ->
                Returned(_calculate_total_score(inp.exhaustion_score, inp.rw_score,
                            inp.rw_passed, inp.funding_score, inp.near_high_pct,
                            inp.z_score))
           [] inp.fn = "get_params" ->
                get_params(inp.symbol, inp.dir, inp.cache, inp.cached)
           [] inp.fn = "sort_symbols_base" ->
                Returned(sort_symbols_base(inp.rows_by_symbol, inp.symbols))
           [] inp.fn = "_render_candidates" ->
                Returned(_render_candidates(inp.rows, inp.now))
    /\ UNCHANGED inp
    /\ UNCHANGED <<schedVars, bridgeVars, storeVars>>

\* the timer system runs with no gate evaluation pending
GatesIdle ==
    /\ inp = CallArgs(CHOOSE g \in GateInputs : TRUE, CHOOSE t \in Times : TRUE)
    /\ result = NoResult

GatesNext == Evaluate

\* Every input of the gate check, beside a freshly constructed window and bridge.
InitGates == GatesInit /\ SchedInit /\ BridgeInit /\ StoreInit

SpecGates == InitGates /\ [][GatesNext]_vars

\* The state after construction of the window, the bridge writer and reader.
Init == GatesIdle /\ SchedInit /\ BridgeInit /\ StoreInit

SchedNext ==
    \/ Tick
    \/ StartScan
    \/ ScanEnds
    \/ PriceEnds
    \/ PumpEnds
    \/ CandEnds
    \/ Deliver

SpecSched == Init /\ [][SchedNext]_vars

\* A worker thread runs on to the end of its run (every fetch call returns
\* or raises), and the event loop of the GUI thread runs the slot of every
\* posted signal.
SchedFairness ==
    /\ WF_vars(ScanEnds) /\ WF_vars(PriceEnds) /\ WF_vars(PumpEnds)
    /\ WF_vars(CandEnds) /\ WF_vars(Deliver)

\* the timer system left to itself: every run is one the tick started
TimerNext ==
    \/ Tick
    \/ ScanEnds
    \/ PriceEnds
    \/ PumpEnds
    \/ CandEnds
    \/ Deliver

SpecSchedFair == Init /\ [][TimerNext]_vars /\ SchedFairness

DriftNext ==
    \/ SchedNext
    \/ LateTick

SpecDrift == Init /\ [][DriftNext]_vars

SpecBridge == Init /\ [][BridgeNext]_vars

SpecStore == Init /\ [][StoreNext]_vars

SpecRescan == Init /\ [][RescanNext]_vars

\* Every call of the pure functions of Part V, beside a freshly constructed
\* window and bridge.
InitPure == PureInit /\ SchedInit /\ BridgeInit /\ StoreInit

PureNext == Call

SpecPure == InitPure /\ [][PureNext]_vars

(***************************************************************************)
(* Properties of the gate pipeline.                                        *)
(***************************************************************************)
Called == result # NoResult

\* what each gate reports on the inputs of the call, evaluated on its own
Gate0OnInputs == check_gate0(inp.btc_trend_1h, inp.change_24h,
                             inp.btc_change_24h, inp.params)

Gate1OnInputs == check_gate1(inp.candles_5m, inp.params)

Gate2OnInputs == check_gate2(inp.candles_5m, inp.change_24h, inp.params)

Gate3OnInputs == check_gate3(inp.candles_5m, inp.momentum_10m, inp.funding_rate,
                             inp.dist_to_high, inp.prev_dist_to_high, inp.params)

LevelsOnInputs ==
    calculate_trade_levels(inp.current_price, Gate2OnInputs.range_low,
                           Gate2OnInputs.range_high, inp.low_24h, inp.params)

\* the first gate that fails on the inputs, 4 if none does
FirstFailingGate ==
    IF ~Gate0OnInputs.passed THEN 0
    ELSE IF ~Gate1OnInputs.passed THEN 1
    ELSE IF ~Gate2OnInputs.res.passed THEN 2
    ELSE IF ~Gate3OnInputs.passed THEN 3
    ELSE 4

\* C1: check_all_gates returns ENTRY only if Gates 0..3 all report passed and
\* the computed risk-reward is at least min_rr.
C1_EntryOnlyWhenAllPassAndRR ==
    result.status = "ENTRY" =>
        /\ result.gate0.passed /\ result.gate1.passed
        /\ result.gate2.passed /\ result.gate3.passed
        /\ FirstFailingGate = 4
        /\ ~RRBelow(LevelsOnInputs.rr, inp.params.min_rr)
        /\ result.rr_ratio = LevelsOnInputs.rr

C1_Witness == result.status = "ENTRY" /\ result.all_passed

\* C2: if Gate N is the first gate that fails, every later gate is reported
\* not passed with default contents, and the status is one of Gate N's own
\* failure branch: 0 -> none/OBSERVATION, 1 -> none/OBSERVATION,
\* 2 -> OBSERVATION/INTEREST, 3 -> READINESS.
C2_FailFast ==
    Called =>
        /\ FirstFailingGate = 0 =>
              /\ result.gate0 = Gate0OnInputs
              /\ result.gate1 = DefaultGateResult
              /\ result.gate2 = DefaultGateResult
              /\ result.gate3 = DefaultGateResult
              /\ result.status \in {"", "OBSERVATION"}
        /\ FirstFailingGate = 1 =>
              /\ result.gate1 = Gate1OnInputs
              /\ result.gate2 = DefaultGateResult
              /\ result.gate3 = DefaultGateResult
              /\ result.status \in {"", "OBSERVATION"}
        /\ FirstFailingGate = 2 =>
              /\ result.gate2 = Gate2OnInputs.res
              /\ result.gate3 = DefaultGateResult
              /\ result.status \in {"OBSERVATION", "INTEREST"}
        /\ FirstFailingGate = 3 =>
              /\ result.gate3 = Gate3OnInputs
              /\ result.status = "READINESS"

C2_Witness ==
    /\ Called /\ FirstFailingGate = 2
    /\ result.gate1.passed /\ ~result.gate2.passed
    /\ Gate3OnInputs.passed
    /\ result.status = "INTEREST"

\* the candle history of the call shows a V-recovery around the Gate-2 range low
VRecoveryOnInputs ==
    /\ Gate2OnInputs.range_low > 0
    /\ check_v_recovery(inp.candles_5m, Gate2OnInputs.range_low, inp.params)

\* C3: whenever, within the veto window, some close was below the Gate-2
\* range low and the final close is back above it, check_all_gates (Gates 0
\* and 1 passing) returns OBSERVATION.
C3_VetoForcesObservation ==
    (Called /\ Gate0OnInputs.passed /\ Gate1OnInputs.passed /\ VRecoveryOnInputs)
        => result.status = "OBSERVATION"


(***************************************************************************)
(* Properties of the timer system.                                         *)
(***************************************************************************)
\* a step in which the tick starts a Tier 1, Tier 2, Tier 3 run
Tier1Fires == ~scan_in_progress /\ scan_in_progress' /\ scan_by_tick'

Tier2Fires == price_runs' = price_runs + 1

Tier3Fires == pump_runs' = pump_runs + 1

\* the step is a tick that follows lost timeouts
AfterGap == missed' > 0

\* the slot of the oldest signal runs in this step
Handles(sig) == queue # <<>> /\ Head(queue).sig = sig /\ queue' = Tail(queue)

\* C4: at most one run of each of Tier 1, Tier 2, Tier 3 is active at any
\* time; a start asked for while the tier's own run is in progress starts no
\* run; and the tick is never held back by a run in progress (it can be taken
\* whenever the bound on slow ticks leaves room).
C4_OneRunPerTier ==
    /\ scan_runs <= 1 /\ price_runs <= 1 /\ pump_runs <= 1
    /\ scan_runs = 1 => scan_in_progress
    /\ pump_runs = 1 => pump_detect_in_progress
    /\ slow < MaxSlowTicks => ENABLED Tick

\* a tick has passed while the Tier 1 run it started was still active
C4_Witness ==
    /\ scan_runs = 1 /\ scan_by_tick /\ rows # {}
    /\ pump_countdown < PumpPeriod

\* C5: whenever Tier 1 fires on a tick, the Tier 2 and Tier 3 countdowns
\* stand at their full periods after that tick.
C5_Tier1ResetsLowerTiers ==
    [][Tier1Fires =>
         price_countdown' = PricePeriod /\ pump_countdown' = PumpPeriod]_vars

\* the tick has just fired Tier 1 over a non-empty store
C5_Witness ==
    /\ scan_runs = 1 /\ scan_by_tick /\ rows # {}
    /\ full_countdown = FullPeriod
    /\ price_countdown = PricePeriod /\ pump_countdown = PumpPeriod

\* the countdown a tier has after a tick if it is counted unless paused
Counted(c, paused, period, reset) ==
    IF reset THEN period
    ELSE IF paused THEN c
    ELSE IF c - 1 <= 0 THEN period ELSE c - 1

SCAN_LEVEL1_INTERVAL_SEC == 300

C9_FailureWaitsFullPeriod ==
    [][/\ Handles("error") =>
            ~scan_in_progress' /\ full_countdown' = FullPeriod
       /\ Handles("price_error") =>
            ~price_update_in_progress' /\ price_countdown' = PricePeriod
       /\ Handles("pump_error") =>
            ~pump_detect_in_progress' /\ pump_countdown' = PumpPeriod]_vars

\* C9 amended: when a tier's run fails, its in-progress flag is cleared and,
\* for a run the tick started, its countdown stands at a full period; after
\* the failure of a Tier 1 run started from outside the tick the Tier 1
\* countdown keeps the value it had, so the next Tier 1 run starts when that
\* remainder is counted.
C9_FailureKeepsCountdown ==
    [][/\ Handles("error") =>
            /\ ~scan_in_progress'
            /\ full_countdown' = full_countdown
            /\ scan_by_tick => full_countdown' = FullPeriod
       /\ Handles("price_error") =>
            ~price_update_in_progress' /\ price_countdown' = PricePeriod
       /\ Handles("pump_error") =>
            ~pump_detect_in_progress' /\ pump_countdown' = PumpPeriod]_vars

\* a Tier 1 run started from outside the tick has failed with less than a
\* full period left on the Tier 1 countdown
C9_Witness ==
    /\ scan_failed /\ ~scan_by_tick /\ ~scan_in_progress
    /\ full_countdown < FullPeriod

(***************************************************************************)
(* Properties of the bridge.                                               *)
(***************************************************************************)
\* the text is the beginning of the text of a completed publish
PrefixOfPublished(text) ==
    \E i \in 1..Len(published) :
        /\ Len(text) <= Len(Serialize(published[i]))
        /\ text = SubSeq(Serialize(published[i]), 1, Len(text))

\* C10: a read of the canonical file, at any moment and also while a publish
\* is in progress, ends with no file or with the complete payload of one
\* completed publish, equal field for field to what the writer serialized;
\* it never meets a partially written or mixed text.
C10_ReaderSeesCompletePublish ==
    /\ outcome \in {"not_read", "no_file", "parsed"}
    /\ outcome = "parsed" => \E i \in 1..Len(published) : returned = published[i]
    /\ r_pc = "load" =>
          /\ PrefixOfPublished(r_buf)
          /\ \E i \in 1..Len(published) :
                inodes[r_fd].content = Serialize(published[i])
    /\ files[BRIDGE_FILENAME] # 0 =>
          \E i \in 1..Len(published) :
              inodes[files[BRIDGE_FILENAME]].content = Serialize(published[i])

\* a read that began before the second publish was completed has returned the
\* payload of the first, with items in it, while the second write is under way
C10_Witness ==
    /\ outcome = "parsed" /\ Len(published) >= 1
    /\ returned = published[1] /\ Len(returned.items) = 2
    /\ w_pc = "dump" /\ w_pending # <<>>
    /\ Len(inodes[files[WritePath(BRIDGE_FILENAME)]].content) > 0

\* C11: a read of the consumer goes on to open and parse the canonical file
\* only when the modification time it finds differs from the one it recorded
\* at its previous read; with an unchanged modification time it does not parse
\* the file again.
C11_ParsesOnlyOnChange ==
    [][(r_pc = "stat" /\ r_pc' = "open") =>
          inodes[files[BRIDGE_FILENAME]].mtime # last_mtime_ns]_vars

(***************************************************************************)
(* Properties of the records of the store.                                 *)
(***************************************************************************)
\* the records of the store
StoreRows == {heap[win_rows[s]] : s \in {t \in StoreSymbols : win_rows[t] # 0}}

\* the records the store holds after the step
StoreRowsAfter == {heap'[win_rows'[s]] : s \in {t \in StoreSymbols : win_rows'[t] # 0}}

\* a Tier 1 run has ended and _on_finished has made its results the store
Tier1Recomputes == runs'[1] = runs[1] + 1

\* C12: after a Tier 1 full recompute every record of the store with status
\* ENTRY (and so every item published from it, which copies these fields)
\* has the four gate-pass flags true and a risk-reward of at least the
\* configured minimum, GateParams.min_rr.
C12_EntryMeetsMinRR ==
    [][Tier1Recomputes =>
          \A row \in StoreRowsAfter :
              row.status = "ENTRY" =>
                  /\ row.gate0_passed /\ row.gate1_passed
                  /\ row.gate2_passed /\ row.gate3_passed
                  /\ ~RRBelow(row.rr, GateParams.min_rr)]_vars

\* the first gate a record fails, 4 when it fails none
FirstFailingFlag(row) ==
    IF ~row.gate0_passed THEN 0
    ELSE IF ~row.gate1_passed THEN 1
    ELSE IF ~row.gate2_passed THEN 2
    ELSE IF ~row.gate3_passed THEN 3
    ELSE 4

\* C13: in the Tier 1 recompute the status of a record is decided by the
\* first gate it fails: records with the same first failing gate have the
\* same status, and a record that fails Gate 0 is never INTEREST, READINESS
\* or ENTRY, whatever Gates 1-3 say.
C13_StatusByFirstFailingGate ==
    [][Tier1Recomputes =>
          /\ \A a, b \in StoreRowsAfter :
                FirstFailingFlag(a) = FirstFailingFlag(b) => a.status = b.status
          /\ \A row \in StoreRowsAfter :
                ~row.gate0_passed =>
                    row.status \notin {"INTEREST", "READINESS", "ENTRY"}]_vars

\* the GUI thread takes the results a run delivered at its end: those of a
\* Tier 1 run, or the finished signal of a Tier 2 or Tier 3 run
BulkStep ==
    \/ Tier1Recomputes
    \/ /\ posted # <<>> /\ posted' = Tail(posted)
       /\ Head(posted).sig \in {"price_finished", "pump_finished"}

\* C14: within a firing of a tier no record of the store is modified before
\* all per-symbol results of the firing are computed: the records the store
\* holds change only in the one step that takes the results at the end of a
\* run, so no reader meets a store updated for part of the symbols only.
C14_StoreChangesInBulk ==
    [][StoreRows # StoreRowsAfter => BulkStep]_vars

\* C15: each tier writes only the record fields it owns: no field of a
\* record is assigned by both Tier 2 and Tier 3, so the two, running
\* concurrently, never overwrite each other's writes.
C15_DisjointFields == written2 \cap written3 = {}

\* none < OBSERVATION < INTEREST < READINESS < ENTRY
StatusRank(status) ==
    CASE status = "ENTRY" -> 4
      [] status = "READINESS" -> 3
      [] status = "INTEREST" -> 2
      [] status = "OBSERVATION" -> 1
      [] OTHER -> 0

\* the GUI thread handles a Tier 3 detection
HandlesDetection ==
    /\ posted # <<>> /\ Head(posted).sig = "pump_detected"
    /\ posted' = Tail(posted)

\* C16: handling a Tier 3 detection never lowers the status of a record.
C16_DetectionNeverLowers ==
    [][HandlesDetection =>
          \A s \in StoreSymbols :
              win_rows[s] # 0 =>
                  StatusRank(heap'[win_rows[s]].status)
                      >= StatusRank(heap[win_rows[s]].status)]_vars

(***************************************************************************)
(* Further properties of the gate pipeline.                                *)
(***************************************************************************)
\* C17: two calls of check_all_gates with the same symbol, candle history,
\* metrics and parameter set return results equal in every field, whenever
\* each of them is made: the result of the call is the one a call with the
\* same arguments returns at any other time.
C17_SameResultAtAnyTime ==
    Called => \A t \in Times : check_all_gates([inp EXCEPT !.now = t]) = result

\* C18: when all four gates pass and the computed risk-reward is below
\* min_rr (negative, or 0 because the stop is not above the entry, included),
\* check_all_gates returns READINESS with no trade plan: entry, stop, the
\* three targets and the risk-reward of the result stay 0.
C18_LowRRGivesNoPlan ==
    (Called /\ FirstFailingGate = 4
        /\ RRBelow(LevelsOnInputs.rr, inp.params.min_rr)) =>
        /\ result.status = "READINESS"
        /\ result.entry_price = 0 /\ result.sl_price = 0
        /\ result.tp1_price = 0 /\ result.tp2_price = 0 /\ result.tp3_price = 0
        /\ result.rr_ratio = <<0, 1>>

\* all gates passed with the entry above the stop: the risk is negative and
\* the risk-reward of calculate_trade_levels is 0
C18_Witness ==
    /\ Called /\ FirstFailingGate = 4 /\ result.all_passed
    /\ LevelsOnInputs.sl <= inp.current_price * 1000
    /\ LevelsOnInputs.rr = <<0, 1>>
    /\ result.status = "READINESS" /\ result.rr_ratio = <<0, 1>>

\* the Gate 3 conditions that hold on the inputs of the call: check_gate3
\* lists one signal for each
Gate3ConditionsMet == Len(Gate3OnInputs.signals)

\* C19: when Gates 0, 1 and 2 pass and fewer than 2 of the 4 conditions of
\* Gate 3 hold, check_all_gates returns READINESS with the gate-pass flags
\* true, true, true, false.
C19_WeakConfidenceIsReadiness ==
    (Called /\ Gate0OnInputs.passed /\ Gate1OnInputs.passed
        /\ Gate2OnInputs.res.passed /\ Gate3ConditionsMet < 2) =>
        /\ result.status = "READINESS"
        /\ result.gate0.passed /\ result.gate1.passed /\ result.gate2.passed
        /\ ~result.gate3.passed

\* funding 0 and flat momentum, no volume spike, the distance to the high
\* not growing: one condition of four, after a confirmed breakdown
C19_Witness ==
    /\ Called /\ Gate2OnInputs.res.passed
    /\ inp.funding_rate = 0 /\ inp.momentum_10m = 0
    /\ Gate3OnInputs.signals = <<"momentum">>
    /\ result.status = "READINESS"
    /\ result.gate2.passed /\ ~result.gate3.passed

\* the 24h change or the range position of the call is already extreme, by
\* the thresholds check_all_gates uses for a failure of Gate 1 (70 and 8%)
AlreadyExtreme == inp.range_position > 70 \/ inp.change_24h > 80

\* C20: when Gate 0 fails the status is OBSERVATION if the 24h change or the
\* range position is already extreme, and none otherwise.
C20_Gate0FailStatus ==
    (Called /\ FirstFailingGate = 0) =>
        result.status = IF AlreadyExtreme THEN "OBSERVATION" ELSE ""

\* the place of a symbol in lexical order
LexRank(symbol) ==
    CASE symbol = "AUSDT" -> 1
      [] symbol = "BUSDT" -> 2
      [] symbol = "CUSDT" -> 3
      [] OTHER -> 0

\* C21: the items of every published snapshot are ordered by status
\* priority, then by score descending, and items equal in both are ordered
\* by symbol in lexical order
C21_PublishedOrderIsTotal ==
    \A k \in 1..Len(published) :
        LET items == published[k].items IN
        \A i, j \in 1..Len(items) :
            i < j =>
               /\ ~KeyBefore(items[j], items[i])
               /\ (~KeyBefore(items[i], items[j]) =>
                      LexRank(items[i].symbol) < LexRank(items[j].symbol))

\* C22: the top_n field of a published payload equals the top_n the caller
\* of the write requested
C22_TopNIsRequested ==
    w_pc = "utime" => Last(published).top_n = w_top_n

\* C23: every record of the store has 0 <= range_position <= 100, and
\* dist_high_pct >= 0 whenever high_24h > 0
C23_PositionWithinRange ==
    \A row \in StoreRows :
        /\ 0 <= row.range_position /\ row.range_position <= 100
        /\ row.high_24h > 0 => row.dist_high_pct >= 0

\* C24: a record with price 100, high 110 and low 90 (in ticks: 1000, 1100,
\* 900) has range_position 50 and dist_high_pct of about 9.09% (90 or 91
\* tenths of a percent), and a record with high_24h = low_24h has
\* range_position 50
C24_SpecifiedFormulas ==
    \A row \in StoreRows :
        /\ (row.price_now = 1000 /\ row.high_24h = 1100 /\ row.low_24h = 900) =>
              row.range_position = 50 /\ row.dist_high_pct \in {90, 91}
        /\ row.high_24h = row.low_24h => row.range_position = 50

\* C25: the score of every record of the store is within 0..100
C25_ScoreWithinBounds ==
    \A row \in StoreRows : 0 <= row.score /\ row.score <= 100

(***************************************************************************)
(* Properties of the functions of Part V.                                  *)
(***************************************************************************)
\* the lowest score that gives a status (OBSERVATION)
STATUS_THRESHOLD_WATCH == 30

\* the call is one of a score function with a failed relative-weakness filter
RWFilterFails ==
    \/ inp.fn = "calculate_score_v2" /\ inp.btc_div_1h > 0
    \/ inp.fn = "_calculate_total_score" /\ ~inp.rw_passed

\* C26: if the relative-weakness filter fails, the composite score is at
\* most 29, strictly below the lowest status threshold, whatever the other
\* score factors are
C26_BlockedScoreBelowThreshold ==
    (Called /\ RWFilterFails) =>
        /\ result.value <= 29 * ScoreUnit
        /\ result.value < STATUS_THRESHOLD_WATCH * ScoreUnit

\* a blocked coin at its high, fully exhausted and falling (factors worth
\* 20 + 15 + 10 points) is scored 29
C26_Witness ==
    /\ Called /\ inp.fn = "calculate_score_v2" /\ inp.btc_div_1h > 0
    /\ inp.exhaustion = 100 /\ inp.dist_to_high_pct = 0 /\ inp.trend_1h = -200
    /\ result.value = 29 * ScoreUnit

\* the file get_params reads for the symbol of the call
ConsultedFile ==
    IF inp.symbol = "DEFAULT" \/ inp.dir["symbol"].state = "absent"
    THEN inp.dir["DEFAULT"] ELSE inp.dir["symbol"]

\* C27: get_params for a symbol whose parameter file (or, without one, the
\* DEFAULT file) exists but is corrupt returns the hardcoded defaults and
\* does not raise
C27_CorruptFileGivesDefaults ==
    (Called /\ inp.fn = "get_params" /\ inp.cache = {}
        /\ ConsultedFile.state = "corrupt") =>
        result = Returned([symbol |-> inp.symbol, params |-> GateParams])

\* C30: sort_symbols_base returns the symbols in descending base-rank order,
\* every symbol without a row after all symbols with a row
C30_MissingRowsLast ==
    (Called /\ inp.fn = "sort_symbols_base") =>
        LET out == result.value
            r == inp.rows_by_symbol
        IN  \A i, j \in 1..Len(out) :
                i < j =>
                   /\ (r[out[i]] # <<>> /\ r[out[j]] # <<>>) =>
                         ~TupleLess(r[out[i]], r[out[j]])
                   /\ ~(r[out[i]] = <<>> /\ r[out[j]] # <<>>)

Removed == {inp.rows[i] : i \in 1..Len(inp.rows)}
              \ {result.value[i] : i \in 1..Len(result.value)}

\* the candidates of the call that rank at or before the record
RankedAhead(row) ==
    {q \in {inp.rows[i] : i \in 1..Len(inp.rows)} :
        /\ q # row /\ ~Expired(q, inp.now)
        /\ q.status \in {"INTEREST", "READINESS", "ENTRY", "OBSERVATION"}
        /\ q.score > 20
        /\ ~KeyBefore(row, q)}

\* C29: candidate maintenance removes a record only if its status is
\* OBSERVATION and it was first flagged more than 30 minutes ago or ranks
\* outside the top set; a record with another status is never removed
C29_RemovesOnlyStaleObservation ==
    (Called /\ inp.fn = "_render_candidates") =>
        \A row \in Removed :
            /\ row.status = "OBSERVATION"
            /\ \/ inp.now - row.added_at > 30 * 60
               \/ Cardinality(RankedAhead(row)) >= CandLimit

\* a store of three candidates: the OBSERVATION record ranked last is
\* removed though it was flagged only 30 minutes ago, the other two stay
C29_Witness ==
    /\ Called /\ inp.fn = "_render_candidates"
    /\ Len(inp.rows) = 3 /\ Len(result.value) = 2
    /\ \E row \in Removed : row.status = "OBSERVATION" /\ row.added_at = 8200
    /\ \E i \in 1..2 : result.value[i].status = "ENTRY"

(***************************************************************************)
(* Further properties of the gate pipeline.                                *)
(***************************************************************************)
\* Gate 2 was evaluated in the call, on a history long enough for its range
Gate2Evaluated ==
    /\ Called /\ Gate0OnInputs.passed /\ Gate1OnInputs.passed
    /\ inp.params.gate2_enabled
    /\ Len(inp.candles_5m) >= RangeWindow(inp.change_24h, inp.params) + 2

\* the lowest low of the n candles that precede the last two
RangeLowOnInputs ==
    LET n == RangeWindow(inp.change_24h, inp.params)
        len == Len(inp.candles_5m)
    IN  MinOf({inp.candles_5m[k].low : k \in (len - n - 1)..(len - 2)})

\* the second-to-last candle closes below the range low minus the buffer
BreakdownOnInputs ==
    inp.candles_5m[Len(inp.candles_5m) - 1].close * 1000
        < RangeLowOnInputs * (1000 - inp.params.breakdown_confirm_pct)

\* the final candle closes below the range low
RetestCloseOnInputs == Last(inp.candles_5m).close < RangeLowOnInputs

\* C31 as stated: Gate 2 passes exactly when the second-to-last candle
\* closes below the range low minus the confirmation buffer and the final
\* candle closes below the range low
C31_Gate2PassesOnTwoCloses ==
    Gate2Evaluated =>
        (result.gate2.passed <=> (BreakdownOnInputs /\ RetestCloseOnInputs))

\* C31 as amended: Gate 2 passes exactly when, besides the two closes, the
\* high of the final candle is below the range low plus 0.5%
C31_Gate2PassesOnClosesAndWick ==
    Gate2Evaluated =>
        (result.gate2.passed <=>
            /\ BreakdownOnInputs /\ RetestCloseOnInputs
            /\ Last(inp.candles_5m).high * 1000 < RangeLowOnInputs * 1005)

\* both closes are below the range low, the final candle's wick reaches far
\* above it, and Gate 2 does not pass
C31_Witness ==
    /\ Gate2Evaluated /\ BreakdownOnInputs /\ RetestCloseOnInputs
    /\ Last(inp.candles_5m).high > RangeLowOnInputs
    /\ ~result.gate2.passed
    /\ result.gate2.signals = <<"breakdown_close">>

\* C32: whenever Gate 2 reports passed in a call of check_all_gates,
\* check_v_recovery on the same candles and range low returns false, and
\* the call does not leave through the V-recovery branch
C32_PassExcludesVRecovery ==
    (Called /\ result.gate2.passed) =>
        /\ ~check_v_recovery(inp.candles_5m, Gate2OnInputs.range_low, inp.params)
        /\ result.signal_text # "v_recovery"

\* Gate 2 passed on a history whose second-to-last close dipped below the
\* range low, and the call went on to Gate 3
C32_Witness ==
    /\ Called /\ result.gate2.passed
    /\ BreakdownOnInputs /\ RetestCloseOnInputs
    /\ result.gate3 = Gate3OnInputs
    /\ result.status \in {"READINESS", "ENTRY"}

\* C33: with Gate 2 enabled and min_rr > 0, check_all_gates never returns
\* ENTRY when the current price, used as entry, is at or below the Gate-2
\* range low
C33_NoEntryAtOrBelowRangeLow ==
    (/\ Called /\ inp.params.gate2_enabled /\ inp.params.min_rr > 0
     /\ inp.current_price <= Gate2OnInputs.range_low) =>
        result.status # "ENTRY"

\* all four gates pass after a confirmed breakdown, the current price is the
\* final candle's close below the range low, and the call returns READINESS
\* for a risk-reward below the minimum
C33_Witness ==
    /\ Called /\ FirstFailingGate = 4
    /\ BreakdownOnInputs
    /\ inp.current_price = Last(inp.candles_5m).close
    /\ inp.current_price < Gate2OnInputs.range_low
    /\ LevelsOnInputs.rr[1] < 0
    /\ result.status = "READINESS" /\ result.signal_text = "rr_below_min"

\* the trade levels of the result are ordered stop > entry > first target
\* >= second target > third target, and the reported risk-reward is
\* (entry - first target) / (stop - entry)
LevelsOrdered ==
    /\ result.sl_price > result.entry_price
    /\ result.entry_price > result.tp1_price
    /\ result.tp1_price >= result.tp2_price
    /\ result.tp2_price > result.tp3_price
    /\ result.rr_ratio[1] * (result.sl_price - result.entry_price)
          = (result.entry_price - result.tp1_price) * result.rr_ratio[2]

C35_Tier2NeverBesideTier1 ==
    ~(scan_runs > 0 /\ price_runs > 0)

\* C35 as amended: a Tier 2 run never starts while a Tier 1 run is in
\* progress (a Tier 1 run may start beside a Tier 2 run)
C35_Tier2NeverStartsDuringTier1 ==
    [][Tier2Fires => ~scan_in_progress]_vars

\* the tick on which both came due has started a Tier 2 run and then a
\* Tier 1 run, and both are in progress
C35_Witness ==
    /\ scan_runs = 1 /\ price_runs = 1
    /\ scan_in_progress /\ price_update_in_progress /\ scan_by_tick
    /\ full_countdown = FullPeriod /\ price_countdown = PricePeriod

(***************************************************************************)
(* Further properties of the store.                                        *)
(***************************************************************************)
\* the newest record object a dict holds, 0 for an empty dict
Newest(d) == MaxOf({d[s] : s \in StoreSymbols})

\* C36: the completion of a Tier 2 run never takes out of the store a
\* record that a Tier 1 completion installed after that run had started
\* (a record newer than every record of the run's own dict)
C36_NoStaleOverwrite ==
    [][(/\ posted # <<>> /\ Head(posted).sig = "price_finished"
        /\ posted' = Tail(posted)) =>
          \A s \in StoreSymbols :
              win_rows[s] > Newest(Head(posted).payload) =>
                  win_rows'[s] = win_rows[s]]_vars

\* C37: every tier run that is started eventually ends with that tier's
\* in-progress flag cleared, on success and on failure alike
C37_EveryRunEnds ==
    /\ scan_in_progress ~> ~scan_in_progress
    /\ price_update_in_progress ~> ~price_update_in_progress
    /\ pump_detect_in_progress ~> ~pump_detect_in_progress

\* a Tier 1 run has failed and a Tier 3 run has failed: both flags are
\* cleared, and the finished signal that follows the Tier 3 error waits
C37_Witness ==
    /\ scan_failed /\ ~scan_in_progress /\ scan_runs = 0
    /\ ~pump_detect_in_progress /\ pump_runs = 0
    /\ queue # <<>> /\ Head(queue).sig = "pump_finished"

\* the loop of a Tier 2 run handles one symbol in this step
RefreshesRecord ==
    /\ p_pc = "loop" /\ p_pc' = "loop"
    /\ p_todo # <<>> /\ p_todo' = Tail(p_todo)

\* C38: a Tier 2 price refresh never lowers a record's status and never
\* creates or removes ENTRY
C38_RefreshNeverLowers ==
    [][RefreshesRecord =>
          \A o \in 1..Len(heap) :
              /\ StatusRank(heap'[o].status) >= StatusRank(heap[o].status)
              /\ heap'[o].status = "ENTRY" <=> heap[o].status = "ENTRY"]_vars

\* with no Tier 3 write so far, a Tier 2 run has written a status: the store
\* holds a READINESS record with fewer than three gates passed, beside a
\* refreshed record that is still ENTRY
C38_Witness ==
    /\ "status" \in written2 /\ written3 = {}
    /\ \E row \in StoreRows :
          row.status = "READINESS" /\ gates_passed(row) < 3
    /\ \E row \in StoreRows :
          row.status = "ENTRY" /\ row.price_now = 995

\* C39: once the first-flagged timestamp of a symbol is set, it keeps that
\* value for as long as the symbol stays in the store, also across a Tier 1
\* recompute that touches the symbol
C39_FirstFlaggedKept ==
    [][\A s \in StoreSymbols :
          (/\ win_rows[s] # 0 /\ heap[win_rows[s]].added_at # 0
           /\ win_rows'[s] # 0) =>
              heap'[win_rows'[s]].added_at = heap[win_rows[s]].added_at]_vars

(***************************************************************************)
(* Further properties of the bridge.                                       *)
(***************************************************************************)
\* BridgeReader.has_update: the canonical file exists and its modification
\* time is greater than the one the latest read() recorded
has_update ==
    /\ files[BRIDGE_FILENAME] # 0
    /\ inodes[files[BRIDGE_FILENAME]].mtime > last_mtime_ns

\* writer and reader are between calls, and the payload of the latest
\* completed publish is not what the latest read() returned: that publish was
\* completed after the read took its modification-time sample
PublishedAfterRead ==
    /\ w_pc = "idle" /\ r_pc = "idle"
    /\ published # <<>>
    /\ returned # published[Len(published)]

\* C40: no completed publish is missed by the reader: after a publish that
\* was completed after a read() took its modification-time sample,
\* has_update() is true until the next read(); and directly after a read()
\* takes its sample, with no step of a publish in between, has_update() is
\* false.
C40_NoPublishMissed ==
    [][/\ PublishedAfterRead' => has_update'
       /\ (r_pc = "stat" /\ r_pc' = "open") => ~has_update']_vars

====
